---- MODULE Spec2Model ----
(***************************************************************************)
(* DB-Impact-Analyzer: the batch orchestrator (batch_analyzer.py), the     *)
(* what-if engine (what_if.py), the request models (models.py), the result *)
(* cache of the request handler (lambda_handler.py), and the single        *)
(* analysis (single_analyzer.py, reasoning.py) with the parsing of the     *)
(* reasoning output.                                                       *)
(*                                                                         *)
(* Identifiers are sequences of one-character strings so that the regular  *)
(* expression and strip() of the validators are computed, not assumed; the *)
(* text of the reasoning service is a sequence of tokens so that the cut   *)
(* from the first "{" to the last "}" and the validation are computed.     *)
(* The specifications share the variables: SpecBatch, SpecCache /          *)
(* SpecCacheConc, SpecWhatIf, SpecSingle and SpecTelemetry; each leaves    *)
(* the parts it does not exercise idle.                                    *)
(***************************************************************************)
EXTENDS Integers, Sequences, FiniteSets, TLC

VARIABLES
    bReq,        \* batch: the request body {db_identifiers, scenario}
    bPc,         \* batch: position of the calling thread
    bNext,       \* batch: index of the next identifier of the submit loop
    task,        \* batch: state of the future of each submitted identifier
    outcome,     \* batch: what each settled future holds
    completed,   \* batch: task indices in the order in which they settled
    snapshot,    \* batch: futures already finished when as_completed started
    harvested,   \* batch: task indices in the order as_completed yielded them
    severity_counts, \* batch: the four counters of batch_analyze
    results,     \* batch: the results list of batch_analyze
    bResp,       \* batch: the BatchResponse, or None
    bMetric,     \* batch: outcome of emit_batch_metric
    CACHE,       \* cache: key -> [response, ts]
    now,         \* cache: the wall clock read by time.time()
    ticks,       \* cache: number of clock advances so far
    cPc,         \* cache: position of each caller of get_cached_or_run_simulation
    cCall,       \* cache: per caller, the call in progress and what it observed
    lastStore,   \* cache: per key, the entry most recently written (history)
    storedFor,   \* cache: per key, the request whose result was written last (history)
    FAKE_DATABASES, \* what-if: the in-memory seed directory
    wReq,        \* what-if: the request body
    wPc,         \* what-if: position of the handler / what_if_analysis
    wState,      \* what-if: locals of what_if_analysis
    wResp,       \* what-if: the WhatIfResponse, or None
    wLog,        \* what-if: external calls made by the current call
    wCalls,      \* what-if: number of what-if requests served so far
    sReq,        \* single: the caller and the arguments of the analysis
    sPc,         \* single: position of the analysis
    sState,      \* single: locals of analyze / run_simulation
    sLog,        \* single: the steps and external calls performed so far
    fCall,       \* function call: the function and its arguments, or None
    fPc,         \* function call: "off", "call", "done"
    fOut         \* function call: what the call did and gave back, or None

bvars == <<bReq, bPc, bNext, task, outcome, completed, snapshot, harvested,
           severity_counts, results, bResp, bMetric>>
cvars == <<CACHE, now, ticks, cPc, cCall, lastStore, storedFor>>
wvars == <<FAKE_DATABASES, wReq, wPc, wState, wResp, wLog, wCalls>>
svars == <<sReq, sPc, sState, sLog>>
fvars == <<fCall, fPc, fOut>>
vars == <<bvars, cvars, wvars, svars, fvars>>

\* Optional values: None is the empty sequence, a present value x is <<x>>.
None == <<>>
Some(x) == <<x>>

----------------------------------------------------------------------------
(* Bounds of the model *)

MaxIds == 2          \* longest identifier list of a well-sized batch
MaxTicks == 3        \* clock advances in a cache run
MaxCacheCalls == 3   \* requests served in a cache run
MaxWhatIfCalls == 2  \* what-if requests served in a run
MaxOverrideKeys == 2 \* most keys in a config_overrides map

(* Program constants *)

MaxBatchSize == 50   \* models.py: validate_batch_size
MaxWorkers == 10     \* batch_analyzer.py: ThreadPoolExecutor(max_workers=10)
CacheTtl == 600      \* lambda_handler.py: time.time() - ts < 600
MaxIdTail == 62      \* models.py: [a-zA-Z0-9-]{0,62}

----------------------------------------------------------------------------
(* Characters and identifiers *)

Letters == {"a","b","c","d","e","f","g","h","i","j","k","l","m","n","o","p",
            "q","r","s","t","u","v","w","x","y","z",
            "A","B","C","D","E","F","G","H","I","J","K","L","M","N","O","P",
            "Q","R","S","T","U","V","W","X","Y","Z"}
Digits == {"0","1","2","3","4","5","6","7","8","9"}
Whitespace == {" ", "\n", "\t"}

ProdOrdersDb01 == <<"p","r","o","d","-","o","r","d","e","r","s","-","d","b","-","0","1">>
ProdUsersDb == <<"p","r","o","d","-","u","s","e","r","s","-","d","b">>
DevAnalyticsDb03 == <<"d","e","v","-","a","n","a","l","y","t","i","c","s","-","d","b","-","0","3">>
ProdPaymentsDb == <<"p","r","o","d","-","p","a","y","m","e","n","t","s","-","d","b">>
Replica1 == <<"r","1">>
Replica2 == <<"r","2">>
MyRdsDb == <<"m","y","-","r","d","s">>      \* well-formed, not in the seed directory
GhostDb == <<"g","h","o","s","t">>          \* well-formed, in neither the directory nor AWS
OneBad == <<"1","b","a","d">>               \* starts with a digit
BlankId == <<" ">>

RECURSIVE LStrip(_)
LStrip(v) == IF Len(v) > 0 /\ Head(v) \in Whitespace THEN LStrip(Tail(v)) ELSE v

RECURSIVE RStrip(_)
RStrip(v) ==
    IF Len(v) > 0 /\ v[Len(v)] \in Whitespace
    THEN RStrip(SubSeq(v, 1, Len(v) - 1)) ELSE v

\* str.strip()
Strip(v) == RStrip(LStrip(v))

\* re.match(r'^[a-zA-Z][a-zA-Z0-9-]{0,62}$', v); '$' also matches just
\* before one trailing newline.
ReMatchRdsIdentifier(v) ==
    LET w == IF Len(v) > 0 /\ v[Len(v)] = "\n" THEN SubSeq(v, 1, Len(v) - 1) ELSE v
    IN  /\ Len(w) >= 1
        /\ w[1] \in Letters
        /\ Len(w) - 1 <= MaxIdTail
        /\ \A i \in 2..Len(w) : w[i] \in Letters \cup Digits \cup {"-"}

----------------------------------------------------------------------------
(* Scenario registry *)

SCENARIOS == {"primary_db_failure", "replica_lag", "backup_failure", "storage_pressure"}

validate_scenario(scenario_id) == scenario_id \in SCENARIOS

\* The characters of a scenario id, for the f-strings that embed it
ScenarioChars(scenario_id) ==
    CASE scenario_id = "primary_db_failure" -> <<"p","r","i","m","a","r","y","_","d","b","_","f","a","i","l","u","r","e">>
      [] scenario_id = "replica_lag" -> <<"r","e","p","l","i","c","a","_","l","a","g">>
      [] scenario_id = "backup_failure" -> <<"b","a","c","k","u","p","_","f","a","i","l","u","r","e">>
      [] scenario_id = "storage_pressure" -> <<"s","t","o","r","a","g","e","_","p","r","e","s","s","u","r","e">>

----------------------------------------------------------------------------
(* Exceptions: a record of the Python type and the message.  The pydantic  *)
(* ValidationError is a subclass of ValueError.                            *)

Exc(type, msg) == [type |-> type, msg |-> msg]

----------------------------------------------------------------------------
(* Request models *)

\* DbScenarioRequest(db_identifier=..., scenario=...): the validated request
\* or the ValidationError.  A valid scenario id has no surrounding
\* whitespace, so the v.strip() of validate_scenario_exists returns it as is.
DbScenarioRequest(db_identifier, scenario) ==
    IF Len(Strip(db_identifier)) = 0
    THEN [ok |-> FALSE, error |-> Exc("ValidationError", "db_identifier cannot be empty")]
    ELSE IF ~ReMatchRdsIdentifier(db_identifier)
    THEN [ok |-> FALSE, error |-> Exc("ValidationError", "db_identifier must be valid AWS RDS identifier")]
    ELSE IF ~validate_scenario(scenario)
    THEN [ok |-> FALSE, error |-> Exc("ValidationError", "Invalid scenario")]
    ELSE [ok |-> TRUE, db_identifier |-> Strip(db_identifier), scenario |-> scenario]

\* BatchRequest(**body): size and scenario only; the entries of
\* db_identifiers are plain strings and are not matched against anything.
BatchRequest(body) ==
    IF Len(body.db_identifiers) > MaxBatchSize
    THEN [ok |-> FALSE, error |-> Exc("ValidationError", "Batch size exceeds maximum of 50 databases")]
    ELSE IF Len(body.db_identifiers) = 0
    THEN [ok |-> FALSE, error |-> Exc("ValidationError", "At least one database identifier required")]
    ELSE IF body.scenario \notin SCENARIOS
    THEN [ok |-> FALSE, error |-> Exc("ValidationError", "Invalid scenario")]
    ELSE [ok |-> TRUE, db_identifiers |-> body.db_identifiers, scenario |-> body.scenario]

----------------------------------------------------------------------------
(* Database configurations (DbConfig) and the seed directory *)

DbConfig(identifier, multi_az, backup_retention_days, pitr_enabled, engine, instance_class, read_replicas, allocated_storage, max_allocated_storage, storage_encrypted, engine_version) ==
    [identifier |-> identifier, multi_az |-> multi_az,
     backup_retention_days |-> backup_retention_days,
     pitr_enabled |-> pitr_enabled, engine |-> engine,
     instance_class |-> instance_class, read_replicas |-> read_replicas,
     allocated_storage |-> allocated_storage,
     max_allocated_storage |-> max_allocated_storage,
     storage_encrypted |-> storage_encrypted, engine_version |-> engine_version]

\* The module-level dict of aws_state.py as it is after import.
InitialFakeDatabases ==
    (ProdOrdersDb01 :> DbConfig(ProdOrdersDb01, FALSE, 7, FALSE, "mysql",
                                "db.m5.large", <<>>, 100, 1000, FALSE, None))
 @@ (ProdUsersDb :> DbConfig(ProdUsersDb, TRUE, 7, TRUE, "postgres",
                             "db.m5.xlarge", <<>>, 100, 1000, FALSE, None))
 @@ (DevAnalyticsDb03 :> DbConfig(DevAnalyticsDb03, FALSE, 3, FALSE, "postgres",
                                  "db.t3.medium", <<>>, 450, 500, FALSE, None))
 @@ (ProdPaymentsDb :> DbConfig(ProdPaymentsDb, TRUE, 14, TRUE, "mysql",
                                "db.m5.large", <<Replica1, Replica2>>, 200, 2000,
                                FALSE, None))

\* get_fake_db_state(db_identifier) over the directory `dir`
get_fake_db_state(dir, db_identifier) ==
    IF db_identifier \notin DOMAIN dir
    THEN [ok |-> FALSE, error |-> Exc("ValueError", "Database not found")]
    ELSE [ok |-> TRUE, config |-> dir[db_identifier]]

\* What rds.describe_db_instances can answer for an identifier: a raw
\* DBInstances[0] entry, a ClientError with its code, or a botocore timeout.
\* The account of the model holds the instance my-rds and no other.
DescribeAnswers(db_identifier) ==
    IF db_identifier = MyRdsDb
    THEN { [kind |-> "db",
            db |-> [DBInstanceIdentifier |-> db_identifier, DBInstanceClass |-> "db.t3.micro",
                    Engine |-> "postgres", MultiAZ |-> FALSE, BackupRetentionPeriod |-> 7,
                    AllocatedStorage |-> 20]],
           [kind |-> "ClientError", code |-> "AccessDenied"],
           [kind |-> "ClientError", code |-> "Throttling"],
           [kind |-> "ConnectTimeoutError"] }
    ELSE { [kind |-> "ClientError", code |-> "DBInstanceNotFound"] }

\* dict.get(key, default) on a raw describe entry
DictGet(d, key, default) == IF key \in DOMAIN d THEN d[key] ELSE default

\* get_real_db_state(db_identifier, ...) for one answer of the describe call
get_real_db_state(db_identifier, answer) ==
    IF answer.kind = "ClientError"
    THEN IF answer.code = "DBInstanceNotFound"
         THEN [ok |-> FALSE, error |-> Exc("ValueError", "Database not found in AWS")]
         ELSE IF answer.code = "AccessDenied"
         THEN [ok |-> FALSE, error |-> Exc("PermissionError", "No permission to access database")]
         ELSE [ok |-> FALSE, error |-> Exc("ClientError", answer.code)]
    ELSE IF answer.kind = "ConnectTimeoutError"
    THEN [ok |-> FALSE, error |-> Exc("ConnectTimeoutError", "Connect timeout on endpoint URL")]
    ELSE LET db == answer.db IN
         [ok |-> TRUE,
          config |-> DbConfig(db.DBInstanceIdentifier,
                              db.MultiAZ,
                              db.BackupRetentionPeriod,
                              db.BackupRetentionPeriod > 0,
                              db.Engine,
                              db.DBInstanceClass,
                              DictGet(db, "ReadReplicaDBInstanceIdentifiers", <<>>),
                              db.AllocatedStorage,
                              DictGet(db, "MaxAllocatedStorage", db.AllocatedStorage),
                              DictGet(db, "StorageEncrypted", FALSE),
                              DictGet(db, "EngineVersion", None))]

\* The configuration fetch at the head of run_simulation / what_if_analysis:
\* every result the fetch of db_identifier can have.
ResolveOutcomes(dir, db_identifier) ==
    IF db_identifier \in DOMAIN dir
    THEN {get_fake_db_state(dir, db_identifier)}
    ELSE {get_real_db_state(db_identifier, a) : a \in DescribeAnswers(db_identifier)}

----------------------------------------------------------------------------
(* Impact results (DbImpactResponse) and the reasoning service *)

Severities == {"LOW", "MEDIUM", "HIGH", "CRITICAL"}

OutageOf(sev) ==
    CASE sev = "CRITICAL" -> 90 [] sev = "HIGH" -> 45 [] sev = "MEDIUM" -> 15 [] OTHER -> 4

DbImpactResponse(sla, rto, rpo, sev) ==
    [sla_violation |-> sla, rto_violation |-> rto, rpo_violation |-> rpo,
     expected_outage_time_minutes |-> OutageOf(sev), business_severity |-> sev,
     why |-> <<"why">>, recommendations |-> <<"fix">>, confidence |-> 86]

\* Results the reasoning service can be made to produce in a batch run: one
\* per severity.
BatchResultPool ==
    {DbImpactResponse(sev \in {"HIGH", "CRITICAL"}, sev = "CRITICAL", FALSE, sev) : sev \in Severities}

\* Results the reasoning service can be made to produce in a what-if run:
\* every combination of the three flags at two severities, and the other
\* two severities with one combination each.
WhatIfResultPool ==
    {DbImpactResponse(sla, rto, rpo, sev) :
        sla \in BOOLEAN, rto \in BOOLEAN, rpo \in BOOLEAN, sev \in {"LOW", "HIGH"}}
    \cup {DbImpactResponse(FALSE, FALSE, FALSE, "MEDIUM"),
          DbImpactResponse(TRUE, TRUE, TRUE, "CRITICAL")}

\* load_business_context(): the text, or the error it raises
BusinessContextOutcomes ==
    { [ok |-> TRUE],
      [ok |-> FALSE, error |-> Exc("PermissionError", "No permission to access bucket")] }

\* call_bedrock(prompt) followed by DbImpactResponse.model_validate_json:
\* a validated result of `pool`, an error of the service, or the
\* ValidationError of a reply that does not validate.
ReasoningOutcomes(pool) ==
    { [ok |-> TRUE, result |-> r] : r \in pool }
    \cup { [ok |-> FALSE, error |-> Exc("ValueError", "Throttling exception from bedrock - too many requests")],
           [ok |-> FALSE, error |-> Exc("ValidationError", "Invalid JSON")] }

\* An outcome together with the external calls that were made for it
WithCalls(o, calls) == [c \in DOMAIN o \cup {"calls"} |-> IF c = "calls" THEN calls ELSE o[c]]

\* run_simulation(request, db_state, ...) once the configuration is there
\* (reasoning.py 29-52): business context, prompt, reasoning call, parse.
AnalyseOutcomes(pool) ==
    { WithCalls(o, <<"load_business_context">>) : o \in {b \in BusinessContextOutcomes : ~b.ok} }
    \cup { WithCalls(o, <<"load_business_context", "call_bedrock">>) : o \in ReasoningOutcomes(pool) }

\* The call a configuration fetch makes
ResolveCall(dir, db_identifier) ==
    IF db_identifier \in DOMAIN dir THEN "get_fake_db_state" ELSE "describe_db_instances"

\* run_simulation(request) with db_state = None: every outcome it can have.
run_simulation(dir, request, pool) ==
    LET fetch == ResolveCall(dir, request.db_identifier)
        configs == ResolveOutcomes(dir, request.db_identifier)
    IN  { WithCalls(c, <<fetch>>) : c \in {x \in configs : ~x.ok} }
        \cup (IF \E c \in configs : c.ok
              THEN { [o EXCEPT !.calls = <<fetch>> \o @] : o \in AnalyseOutcomes(pool) }
              ELSE {})

----------------------------------------------------------------------------
(* Batch orchestrator: handler route + batch_analyze *)

BatchIdPool == {ProdUsersDb, GhostDb, OneBad}
BatchScenarioPool == {"primary_db_failure", "az_failure"}

RECURSIVE SeqsUpTo(_, _)
SeqsUpTo(S, n) ==
    IF n = 0 THEN {<<>>}
    ELSE LET shorter == SeqsUpTo(S, n - 1)
         IN  shorter \cup {Append(q, x) : q \in {r \in shorter : Len(r) = n - 1}, x \in S}

\* Request bodies offered to the batch route: every identifier list of up
\* to MaxIds entries, and one list of MaxBatchSize + 1 entries.
BatchBodies ==
    {[db_identifiers |-> ids, scenario |-> sc] :
        ids \in SeqsUpTo(BatchIdPool, MaxIds), sc \in BatchScenarioPool}
    \cup {[db_identifiers |-> [i \in 1..(MaxBatchSize + 1) |-> ProdUsersDb],
           scenario |-> "primary_db_failure"]}

Range(f) == {f[i] : i \in DOMAIN f}

Submitted == {i \in DOMAIN task : task[i] # "new"}
Running == {i \in DOMAIN task : task[i] = "running"}
Settled == {i \in DOMAIN task : task[i] = "done"}

\* severity_order of batch_analyze and the key of results.sort
severity_order == [CRITICAL |-> 0, HIGH |-> 1, MEDIUM |-> 2, LOW |-> 3, ERROR |-> 4]

SortKey(r) ==
    IF r.status = "success" THEN severity_order[r.analysis.business_severity]
    ELSE severity_order["ERROR"]

\* list.sort(key=...) is stable: the items of each key in their old order,
\* the keys ascending.
RECURSIVE SortFrom(_, _)
SortFrom(items, k) ==
    IF k > 4 THEN <<>>
    ELSE SelectSeq(items, LAMBDA r : SortKey(r) = k) \o SortFrom(items, k + 1)

\* Variant: the list is returned in collection order, unsorted.
SortedResults_Unsorted(items) == items

SortedResults(items) == SortFrom(items, 0)

\* The item appended for a harvested future (batch_analyzer.py 23-37)
SuccessItem(db_identifier, result) ==
    [db_identifier |-> db_identifier, status |-> "success", analysis |-> result]

ErrorItem(db_identifier, e) ==
    [db_identifier |-> db_identifier, status |-> "error", error |-> e.msg]

\* Variant: the CRITICAL and HIGH counters are read from each other's slot.
BatchResponse_SwappedCounters(counts, items) ==
    [total_count |-> Len(items),
     critical_count |-> counts["HIGH"], high_count |-> counts["CRITICAL"],
     medium_count |-> counts["MEDIUM"], low_count |-> counts["LOW"],
     results |-> items]

BatchResponse(counts, items) ==
    [total_count |-> Len(items),
     critical_count |-> counts["CRITICAL"], high_count |-> counts["HIGH"],
     medium_count |-> counts["MEDIUM"], low_count |-> counts["LOW"],
     results |-> items]

InitBatchVars ==
    /\ bPc = "request"
    /\ bNext = 1
    /\ task = <<>>
    /\ outcome = <<>>
    /\ completed = <<>>
    /\ snapshot = {}
    /\ harvested = <<>>
    /\ severity_counts = [CRITICAL |-> 0, HIGH |-> 0, MEDIUM |-> 0, LOW |-> 0]
    /\ results = <<>>
    /\ bResp = None
    /\ bMetric = "none"

\* lambda_handler.py 82: req = BatchRequest(**body); a ValidationError is
\* answered with status 400 and batch_analyze is never entered.
BatchValidate ==
    /\ bPc = "request"
    /\ LET req == BatchRequest(bReq) IN
       IF req.ok
       THEN /\ bPc' = "submit"
            /\ task' = [i \in 1..Len(bReq.db_identifiers) |-> "new"]
            /\ outcome' = [i \in 1..Len(bReq.db_identifiers) |-> None]
       ELSE /\ bPc' = "rejected"
            /\ UNCHANGED <<task, outcome>>
    /\ UNCHANGED <<bReq, bNext, completed, snapshot, harvested, severity_counts,
                   results, bResp, bMetric, cvars, wvars, svars, fvars>>

\* batch_analyzer.py 16-19, one iteration: the DbScenarioRequest of the
\* entry is built (and may raise) and then its task is submitted.
Submit ==
    /\ bPc = "submit"
    /\ bNext <= Len(bReq.db_identifiers)
    /\ LET db_request == DbScenarioRequest(bReq.db_identifiers[bNext], bReq.scenario) IN
       IF db_request.ok
       THEN /\ task' = [task EXCEPT ![bNext] = "queued"]
            /\ bNext' = bNext + 1
            /\ bPc' = bPc
       ELSE /\ bPc' = "unwinding"
            /\ UNCHANGED <<task, bNext>>
    /\ UNCHANGED <<bReq, outcome, completed, snapshot, harvested, severity_counts,
                   results, bResp, bMetric, cvars, wvars, svars, fvars>>

\* Variant: a thread is started for every queued task.
TaskStart_NoLimit(i) ==
    /\ i \in DOMAIN task
    /\ task[i] = "queued"
    /\ \A j \in DOMAIN task : task[j] = "queued" => i <= j
    /\ task' = [task EXCEPT ![i] = "running"]
    /\ UNCHANGED <<bReq, bPc, bNext, outcome, completed, snapshot, harvested,
                   severity_counts, results, bResp, bMetric, cvars, wvars, svars, fvars>>

\* ThreadPoolExecutor(max_workers=10): a worker thread takes the task at
\* the head of the work queue when fewer than 10 tasks are running.
TaskStart(i) ==
    /\ i \in DOMAIN task
    /\ task[i] = "queued"
    /\ \A j \in DOMAIN task : task[j] = "queued" => i <= j
    /\ Cardinality(Running) < MaxWorkers
    /\ task' = [task EXCEPT ![i] = "running"]
    /\ UNCHANGED <<bReq, bPc, bNext, outcome, completed, snapshot, harvested,
                   severity_counts, results, bResp, bMetric, cvars, wvars, svars, fvars>>

\* run_simulation(db_request) returns or raises in its worker; the future
\* is settled with the result or the exception.
TaskFinish(i) ==
    /\ i \in DOMAIN task
    /\ task[i] = "running"
    /\ \E o \in run_simulation(InitialFakeDatabases,
                               DbScenarioRequest(bReq.db_identifiers[i], bReq.scenario),
                               BatchResultPool) :
          outcome' = [outcome EXCEPT ![i] = Some(o)]
    /\ task' = [task EXCEPT ![i] = "done"]
    /\ completed' = Append(completed, i)
    /\ UNCHANGED <<bReq, bPc, bNext, snapshot, harvested, severity_counts,
                   results, bResp, bMetric, cvars, wvars, svars, fvars>>

\* batch_analyzer.py 20-22: counters and list are created and the
\* as_completed generator starts: the futures that are already finished
\* are set aside to be yielded first.
AsCompletedStart ==
    /\ bPc = "submit"
    /\ bNext > Len(bReq.db_identifiers)
    /\ snapshot' = Settled
    /\ bPc' = "collect"
    /\ UNCHANGED <<bReq, bNext, task, outcome, completed, harvested, severity_counts,
                   results, bResp, bMetric, cvars, wvars, svars, fvars>>

\* The futures as_completed may yield next: any of those set aside at the
\* start (a set, so in no particular order), and after them the others in
\* the order in which they finish.
NextYield ==
    LET got == Range(harvested)
        early == snapshot \ got
        late == SelectSeq(completed, LAMBDA i : i \notin snapshot /\ i \notin got)
    IN  IF early # {} THEN early
        ELSE IF Len(late) > 0 THEN {Head(late)} ELSE {}

\* batch_analyzer.py 22-37, one iteration of the collection loop
Harvest(i) ==
    /\ bPc = "collect"
    /\ i \in NextYield
    /\ harvested' = Append(harvested, i)
    /\ LET o == outcome[i][1]
           db_identifier == bReq.db_identifiers[i]
       IN  IF o.ok
           THEN /\ severity_counts' =
                       [severity_counts EXCEPT ![o.result.business_severity] = @ + 1]
                /\ results' = Append(results, SuccessItem(db_identifier, o.result))
           ELSE /\ results' = Append(results, ErrorItem(db_identifier, o.error))
                /\ UNCHANGED severity_counts
    /\ UNCHANGED <<bReq, bPc, bNext, task, outcome, completed, snapshot,
                   bResp, bMetric, cvars, wvars, svars, fvars>>

\* Variant: the response is built as soon as one future has been collected.
Finish_FirstCompleted ==
    /\ bPc = "collect"
    /\ Len(harvested) >= 1
    /\ results' = SortedResults(results)
    /\ bResp' = Some([total_count |-> Len(results), critical_count |-> severity_counts["CRITICAL"],
                      high_count |-> severity_counts["HIGH"], medium_count |-> severity_counts["MEDIUM"],
                      low_count |-> severity_counts["LOW"], results |-> results'])
    /\ \E m \in {"emitted", "failed"} : bMetric' = m
    /\ bPc' = "returned"
    /\ UNCHANGED <<bReq, bNext, task, outcome, completed, snapshot, harvested,
                   severity_counts, cvars, wvars, svars, fvars>>

\* batch_analyzer.py 38-59: the loop is over, the list is sorted, the pool
\* is shut down, the response is built, the metric is emitted (a failure
\* of the sink is caught in emit_batch_metric) and the response returned.
Finish ==
    /\ bPc = "collect"
    /\ Len(harvested) = Len(bReq.db_identifiers)
    /\ results' = SortedResults(results)
    /\ bResp' = Some(BatchResponse(severity_counts, results'))
    /\ \E m \in {"emitted", "failed"} : bMetric' = m
    /\ bPc' = "returned"
    /\ UNCHANGED <<bReq, bNext, task, outcome, completed, snapshot, harvested,
                   severity_counts, cvars, wvars, svars, fvars>>

\* The ValidationError of line 17 leaves the with block: the executor's
\* __exit__ is shutdown(wait=True), which returns when every task that was
\* submitted has run; then the exception reaches the caller.
Unwind ==
    /\ bPc = "unwinding"
    /\ Submitted \subseteq Settled
    /\ bPc' = "raised"
    /\ UNCHANGED <<bReq, bNext, task, outcome, completed, snapshot, harvested,
                   severity_counts, results, bResp, bMetric, cvars, wvars, svars, fvars>>

----------------------------------------------------------------------------
(* Idle values of the parts a specification does not exercise *)

EmptyMap == [k \in {} |-> None]

InitCacheIdle ==
    /\ CACHE = EmptyMap
    /\ now = 0
    /\ ticks = 0
    /\ cPc = EmptyMap
    /\ cCall = EmptyMap
    /\ lastStore = EmptyMap
    /\ storedFor = EmptyMap

InitWhatIfIdle ==
    /\ FAKE_DATABASES = InitialFakeDatabases
    /\ wReq = None
    /\ wPc = "off"
    /\ wState = None
    /\ wResp = None
    /\ wLog = <<>>
    /\ wCalls = 0

InitSingleIdle ==
    /\ sReq = None
    /\ sPc = "off"
    /\ sState = None
    /\ sLog = <<>>

InitCallIdle ==
    /\ fCall = None
    /\ fPc = "off"
    /\ fOut = None

InitBatchIdle ==
    /\ bReq = None
    /\ bPc = "off"
    /\ bNext = 1
    /\ task = <<>>
    /\ outcome = <<>>
    /\ completed = <<>>
    /\ snapshot = {}
    /\ harvested = <<>>
    /\ severity_counts = [CRITICAL |-> 0, HIGH |-> 0, MEDIUM |-> 0, LOW |-> 0]
    /\ results = <<>>
    /\ bResp = None
    /\ bMetric = "none"

----------------------------------------------------------------------------
(* Specification of the batch route *)

InitBatch ==
    /\ bReq \in BatchBodies
    /\ InitBatchVars
    /\ InitCacheIdle
    /\ InitWhatIfIdle
    /\ InitSingleIdle
    /\ InitCallIdle

NextBatch ==
    \/ BatchValidate
    \/ Submit
    \/ \E i \in 1..(MaxIds + 1) : TaskStart(i)
    \/ \E i \in 1..(MaxIds + 1) : TaskFinish(i)
    \/ AsCompletedStart
    \/ \E i \in 1..(MaxIds + 1) : Harvest(i)
    \/ Finish
    \/ Unwind

SpecBatch == InitBatch /\ [][NextBatch]_vars

\* Every thread that can take a step eventually takes it: the caller is
\* never descheduled for ever, a free worker picks up queued work, and each
\* analysis terminates (its external calls are bounded by their timeouts).
FairSpecBatch ==
    /\ SpecBatch
    /\ WF_vars(BatchValidate)
    /\ WF_vars(Submit)
    /\ WF_vars(\E i \in 1..(MaxIds + 1) : TaskStart(i))
    /\ WF_vars(\E i \in 1..(MaxIds + 1) : TaskFinish(i))
    /\ WF_vars(AsCompletedStart)
    /\ WF_vars(\E i \in 1..(MaxIds + 1) : Harvest(i))
    /\ WF_vars(Finish)
    /\ WF_vars(Unwind)

----------------------------------------------------------------------------
(* Properties of the batch route *)

BatchEnded == bPc \in {"rejected", "raised", "returned"}

\* The item task i must have in the response: its own result or its own error
ItemOf(i) ==
    IF outcome[i][1].ok
    THEN SuccessItem(bReq.db_identifiers[i], outcome[i][1].result)
    ELSE ErrorItem(bReq.db_identifiers[i], outcome[i][1].error)

Perms(n) == {f \in [1..n -> 1..n] : \A a, b \in 1..n : f[a] = f[b] => a = b}

\* Position of task i in a sequence of task indices
PosIn(order, i) == CHOOSE k \in 1..Len(order) : order[k] = i

\* The response holds exactly one item per identifier of the request, each
\* identifier with its own outcome.
OneItemPerIdentifier ==
    /\ bResp # None
    /\ Len(bResp[1].results) = Len(bReq.db_identifiers)
    /\ \E f \in Perms(Len(bReq.db_identifiers)) :
          \A k \in 1..Len(bReq.db_identifiers) : bResp[1].results[k] = ItemOf(f[k])

\* C1: when a task of a batch has failed, the call still returns a
\* BatchResponse; the failed identifier has an "error" item with the failure
\* message and every other identifier has its own outcome.
C1_FailedTaskIsAnErrorItem ==
    (BatchEnded /\ \E i \in Settled : ~outcome[i][1].ok)
        => (bPc = "returned" /\ OneItemPerIdentifier)

\* C2: a batch call that ends with a validation error has submitted no
\* task, and a batch call that has submitted a task ends with an item for
\* every identifier.
C2_ValidationBeforeDispatch ==
    /\ (bPc \in {"rejected", "raised"} => Submitted = {})
    /\ (BatchEnded /\ Submitted # {} => (bPc = "returned" /\ OneItemPerIdentifier))

CountWhere(items, P(_)) == Len(SelectSeq(items, P))

\* C3: in every returned BatchResponse total_count = len(results) = number
\* of identifiers of the request, each severity counter is the number of
\* success items of that severity, and so their sum is the number of
\* success items.
C3_CountersMatchItems ==
    bPc = "returned" =>
        LET r == bResp[1] IN
        /\ r.total_count = Len(r.results)
        /\ r.total_count = Len(bReq.db_identifiers)
        /\ r.critical_count = CountWhere(r.results,
               LAMBDA x : x.status = "success" /\ x.analysis.business_severity = "CRITICAL")
        /\ r.high_count = CountWhere(r.results,
               LAMBDA x : x.status = "success" /\ x.analysis.business_severity = "HIGH")
        /\ r.medium_count = CountWhere(r.results,
               LAMBDA x : x.status = "success" /\ x.analysis.business_severity = "MEDIUM")
        /\ r.low_count = CountWhere(r.results,
               LAMBDA x : x.status = "success" /\ x.analysis.business_severity = "LOW")
        /\ r.critical_count + r.high_count + r.medium_count + r.low_count
               = CountWhere(r.results, LAMBDA x : x.status = "success")

\* A returned batch with the same identifier twice, one task failed and one
\* succeeded with CRITICAL.
C3_Witness ==
    /\ bPc = "returned"
    /\ Len(bReq.db_identifiers) = 2
    /\ bReq.db_identifiers[1] = bReq.db_identifiers[2]
    /\ bResp[1].critical_count = 1
    /\ \E k \in 1..2 : bResp[1].results[k].status = "error"

Rank(item) ==
    IF item.status = "error" THEN 4
    ELSE CASE item.analysis.business_severity = "CRITICAL" -> 0
           [] item.analysis.business_severity = "HIGH" -> 1
           [] item.analysis.business_severity = "MEDIUM" -> 2
           [] OTHER -> 3

\* Success items by ascending rank, error items after all success items
RanksAscending(items) ==
    \A a, b \in 1..Len(items) : a < b => Rank(items[a]) <= Rank(items[b])

\* The items are those of the tasks, and two items of equal rank stand in
\* the order their tasks have in `order`.
TiesFollow(items, order) ==
    \E f \in Perms(Len(items)) :
        /\ \A k \in 1..Len(items) : items[k] = ItemOf(f[k])
        /\ \A a, b \in 1..Len(items) :
              (a < b /\ Rank(items[a]) = Rank(items[b]))
                  => PosIn(order, f[a]) < PosIn(order, f[b])

\* C4 as stated: ranks ascend, errors are last, and items of equal rank
\* keep the order in which their tasks completed.
C4_TiesInCompletionOrder ==
    bPc = "returned" =>
        /\ RanksAscending(bResp[1].results)
        /\ TiesFollow(bResp[1].results, completed)

\* C4 amended: ranks ascend, errors are last, and items of equal rank keep
\* the order in which as_completed yielded their futures; that order is the
\* completion order for the futures that finish after the collection
\* started, and those come after the futures that were finished by then.
C4_TiesInYieldOrder ==
    bPc = "returned" =>
        /\ RanksAscending(bResp[1].results)
        /\ TiesFollow(bResp[1].results, harvested)
        /\ \A a, b \in 1..Len(harvested) :
              a < b =>
                 /\ harvested[b] \in snapshot => harvested[a] \in snapshot
                 /\ (harvested[a] \notin snapshot /\ harvested[b] \notin snapshot)
                       => PosIn(completed, harvested[a]) < PosIn(completed, harvested[b])

\* A returned batch of two distinct items of equal rank whose second task
\* completed before the first, so that the order of the tie is observable.
C4_Witness ==
    /\ bPc = "returned"
    /\ Len(bResp[1].results) = 2
    /\ completed = <<2, 1>>
    /\ Rank(bResp[1].results[1]) = Rank(bResp[1].results[2])
    /\ bResp[1].results[1] # bResp[1].results[2]

----------------------------------------------------------------------------
(* Result cache: the single route of handler + get_cached_or_run_simulation *)

TickSteps == {1, 599}

CacheBodies ==
    { [db_identifier |-> ProdUsersDb, scenario |-> "primary_db_failure"],
      [db_identifier |-> ProdUsersDb \o <<"\n">>, scenario |-> "primary_db_failure"],
      [db_identifier |-> ProdUsersDb, scenario |-> "replica_lag"],
      [db_identifier |-> OneBad, scenario |-> "primary_db_failure"] }

CacheResultPool ==
    { DbImpactResponse(TRUE, TRUE, FALSE, "CRITICAL"), DbImpactResponse(FALSE, FALSE, FALSE, "LOW") }

\* Variant: the key is the identifier alone.
CacheKey_IdOnly(req) == req.db_identifier

\* cache_key = f"{req.db_identifier}#{req.scenario}"
CacheKey(req) == req.db_identifier \o <<"#">> \o ScenarioChars(req.scenario)

\* Variant: an entry of age exactly 600 still counts as live.
IsLive_Inclusive(cache_entry, t) == t - cache_entry.ts <= CacheTtl

\* lambda_handler.py 159: time.time() - cache_entry['ts'] < 600
IsLive(cache_entry, t) == t - cache_entry.ts < CacheTtl

\* d[key] = value on a dict
DictSet(d, key, value) ==
    [k \in DOMAIN d \cup {key} |-> IF k = key THEN value ELSE d[k]]

\* del d[key] on a dict that holds key
DictDel(d, key) == [k \in DOMAIN d \ {key} |-> d[k]]

HistoryOf(key) == IF key \in DOMAIN lastStore THEN Some(lastStore[key]) ELSE None

NewCall(n, req) ==
    [n |-> n, req |-> req, key |-> CacheKey(req), at |-> -1, prior |-> None,
     seen |-> None, evicted |-> FALSE, invoked |-> FALSE, pending |-> None,
     returned |-> None, storedAt |-> -1, storedOver |-> None, error |-> None,
     calls |-> <<>>, afterFailure |-> FALSE]

\* Requests the handler has taken so far
RECURSIVE SumCalls(_)
SumCalls(P) == IF P = {} THEN 0 ELSE LET p == CHOOSE q \in P : TRUE IN cCall[p].n + SumCalls(P \ {p})

CallsBegun == SumCalls(DOMAIN cCall)

CacheCallOver(p) == cPc[p] \in {"idle", "rejected", "raised", "returned"}

\* lambda_handler.py 91-94: req = DbScenarioRequest(**body), then the call
\* of get_cached_or_run_simulation(req); a ValidationError is answered 400.
CacheBegin(p, body) ==
    /\ CacheCallOver(p)
    /\ CallsBegun < MaxCacheCalls
    /\ LET req == DbScenarioRequest(body.db_identifier, body.scenario) IN
       IF req.ok
       THEN /\ cPc' = [cPc EXCEPT ![p] = "lookup"]
            /\ cCall' = [cCall EXCEPT ![p] =
                            [NewCall(cCall[p].n + 1, req) EXCEPT
                                !.afterFailure = /\ cPc[p] = "raised"
                                                 /\ cCall[p].invoked
                                                 /\ cCall[p].key = CacheKey(req)]]
       ELSE /\ cPc' = [cPc EXCEPT ![p] = "rejected"]
            /\ cCall' = [cCall EXCEPT ![p] = [NewCall(cCall[p].n + 1, [db_identifier |-> <<>>, scenario |-> "primary_db_failure"])
                                               EXCEPT !.error = Some(req.error)]]
    /\ UNCHANGED <<CACHE, now, ticks, lastStore, storedFor, bvars, wvars, svars, fvars>>

\* lambda_handler.py 156: if cache_key in CACHE
CacheLookup(p) ==
    /\ cPc[p] = "lookup"
    /\ IF cCall[p].key \in DOMAIN CACHE
       THEN /\ cPc' = [cPc EXCEPT ![p] = "read"]
            /\ UNCHANGED cCall
       ELSE /\ cPc' = [cPc EXCEPT ![p] = "run"]
            /\ cCall' = [cCall EXCEPT ![p].at = now, ![p].prior = HistoryOf(cCall[p].key)]
    /\ UNCHANGED <<CACHE, now, ticks, lastStore, storedFor, bvars, wvars, svars, fvars>>

\* lambda_handler.py 157-163: the entry is read (KeyError when it is gone)
\* and its age is compared with the TTL; a live entry is returned.
CacheRead(p) ==
    /\ cPc[p] = "read"
    /\ LET key == cCall[p].key IN
       IF key \notin DOMAIN CACHE
       THEN /\ cPc' = [cPc EXCEPT ![p] = "raised"]
            /\ cCall' = [cCall EXCEPT ![p].error = Some(Exc("KeyError", "cache_key")),
                                      ![p].at = now, ![p].prior = HistoryOf(key)]
       ELSE LET cache_entry == CACHE[key] IN
            IF IsLive(cache_entry, now)
            THEN /\ cPc' = [cPc EXCEPT ![p] = "returned"]
                 /\ cCall' = [cCall EXCEPT ![p].seen = Some(cache_entry), ![p].at = now,
                                           ![p].prior = HistoryOf(key),
                                           ![p].returned = Some(cache_entry.response)]
            ELSE /\ cPc' = [cPc EXCEPT ![p] = "evict"]
                 /\ cCall' = [cCall EXCEPT ![p].seen = Some(cache_entry), ![p].at = now,
                                           ![p].prior = HistoryOf(key)]
    /\ UNCHANGED <<CACHE, now, ticks, lastStore, storedFor, bvars, wvars, svars, fvars>>

\* Variant: the expired entry is left in place.
CacheEvict_NoDelete(p) ==
    /\ cPc[p] = "evict"
    /\ cPc' = [cPc EXCEPT ![p] = "run"]
    /\ cCall' = [cCall EXCEPT ![p].evicted = TRUE]
    /\ UNCHANGED <<CACHE, now, ticks, lastStore, storedFor, bvars, wvars, svars, fvars>>

\* lambda_handler.py 165: del CACHE[cache_key] (KeyError when it is gone)
CacheEvict(p) ==
    /\ cPc[p] = "evict"
    /\ IF cCall[p].key \in DOMAIN CACHE
       THEN /\ CACHE' = DictDel(CACHE, cCall[p].key)
            /\ cPc' = [cPc EXCEPT ![p] = "run"]
            /\ cCall' = [cCall EXCEPT ![p].evicted = TRUE]
       ELSE /\ cPc' = [cPc EXCEPT ![p] = "raised"]
            /\ cCall' = [cCall EXCEPT ![p].error = Some(Exc("KeyError", "cache_key"))]
            /\ UNCHANGED CACHE
    /\ UNCHANGED <<now, ticks, lastStore, storedFor, bvars, wvars, svars, fvars>>

\* lambda_handler.py 169: response = run_simulation(req); an exception
\* leaves get_cached_or_run_simulation.
CacheRun(p) ==
    /\ cPc[p] = "run"
    /\ \E o \in run_simulation(InitialFakeDatabases, cCall[p].req, CacheResultPool) :
          IF o.ok
          THEN /\ cPc' = [cPc EXCEPT ![p] = "store"]
               /\ cCall' = [cCall EXCEPT ![p].invoked = TRUE, ![p].pending = Some(o.result),
                                         ![p].calls = o.calls]
          ELSE /\ cPc' = [cPc EXCEPT ![p] = "raised"]
               /\ cCall' = [cCall EXCEPT ![p].invoked = TRUE, ![p].error = Some(o.error),
                                         ![p].calls = o.calls]
    /\ UNCHANGED <<CACHE, now, ticks, lastStore, storedFor, bvars, wvars, svars, fvars>>

CacheEntry(response, ts) == [response |-> response, ts |-> ts]

\* lambda_handler.py 171-172: the entry is written with the time of the
\* write and the response is returned.
CacheStore(p) ==
    /\ cPc[p] = "store"
    /\ CACHE' = DictSet(CACHE, cCall[p].key, CacheEntry(cCall[p].pending[1], now))
    /\ lastStore' = DictSet(lastStore, cCall[p].key, CacheEntry(cCall[p].pending[1], now))
    /\ storedFor' = DictSet(storedFor, cCall[p].key, cCall[p].req)
    /\ cPc' = [cPc EXCEPT ![p] = "returned"]
    /\ cCall' = [cCall EXCEPT ![p].returned = cCall[p].pending, ![p].storedAt = now,
                              ![p].storedOver = HistoryOf(cCall[p].key)]
    /\ UNCHANGED <<now, ticks, bvars, wvars, svars, fvars>>

\* The wall clock advances (between any two steps of a caller).
Tick ==
    /\ ticks < MaxTicks
    /\ \E d \in TickSteps : now' = now + d
    /\ ticks' = ticks + 1
    /\ UNCHANGED <<CACHE, cPc, cCall, lastStore, storedFor, bvars, wvars, svars, fvars>>

InitCache(callers) ==
    /\ CACHE = EmptyMap
    /\ now = 0
    /\ ticks = 0
    /\ cPc = [p \in callers |-> "idle"]
    /\ cCall = [p \in callers |-> NewCall(0, [db_identifier |-> <<>>, scenario |-> "primary_db_failure"])]
    /\ lastStore = EmptyMap
    /\ storedFor = EmptyMap
    /\ InitBatchIdle
    /\ InitWhatIfIdle
    /\ InitSingleIdle
    /\ InitCallIdle

NextCache ==
    \/ \E p \in DOMAIN cPc, body \in CacheBodies : CacheBegin(p, body)
    \/ \E p \in DOMAIN cPc : CacheLookup(p)
    \/ \E p \in DOMAIN cPc : CacheRead(p)
    \/ \E p \in DOMAIN cPc : CacheEvict(p)
    \/ \E p \in DOMAIN cPc : CacheRun(p)
    \/ \E p \in DOMAIN cPc : CacheStore(p)
    \/ Tick

\* One request at a time, as the handler itself calls the function.
SpecCache == InitCache({1}) /\ [][NextCache]_vars

\* Two requests in the same process at the same time.
SpecCacheConc == InitCache({1, 2}) /\ [][NextCache]_vars

----------------------------------------------------------------------------
(* Properties of the result cache *)

CacheObserved(p) == cPc[p] \in {"evict", "run", "store", "raised", "returned"} /\ cCall[p].at >= 0

\* C6: once a result has been stored for a key at time t, a call for the
\* key whose clock reading is below t + 600 returns that result and does not
\* invoke run_simulation; a call that reads the clock at t + 600 or later
\* removes the entry, invokes run_simulation and, when that succeeds, leaves
\* the new result in the cache with the time of the write.
C6_LiveEntryServedExpiredRecomputed ==
    \A p \in DOMAIN cPc :
        LET c == cCall[p] IN
        (CacheObserved(p) /\ c.prior # None) =>
            IF c.at < c.prior[1].ts + 600
            THEN /\ cPc[p] = "returned"
                 /\ ~c.invoked
                 /\ c.returned = Some(c.prior[1].response)
                 /\ c.storedAt = -1
                 /\ CACHE[c.key] = c.prior[1]
            ELSE /\ (c.seen # None /\ cPc[p] # "evict") => c.evicted
                 /\ cPc[p] \in {"store", "raised", "returned"} => c.invoked
                 /\ cPc[p] = "returned" =>
                       /\ CACHE[c.key] = [response |-> c.returned[1], ts |-> c.storedAt]
                       /\ c.storedAt >= c.at
                       /\ c.storedAt >= c.prior[1].ts + 600

\* The third request finds an entry of age exactly 600, after an earlier
\* request; it has evicted it, recomputed and stored the new result.
C6_Witness ==
    /\ cPc[1] = "returned"
    /\ cCall[1].n = 3
    /\ cCall[1].seen # None
    /\ cCall[1].at - cCall[1].seen[1].ts = 600
    /\ cCall[1].evicted
    /\ cCall[1].invoked
    /\ CACHE[cCall[1].key].ts = cCall[1].storedAt

\* C7: the callers exclude each other over the check / evict / compute /
\* store sequence, so that no caller fails with the KeyError of an entry
\* another caller removed, and no result is computed and stored for a key
\* less than 600 seconds after the previous one was stored for it.
C7_SerializedAccess ==
    \A p \in DOMAIN cPc :
        /\ cCall[p].error # Some(Exc("KeyError", "cache_key"))
        /\ cCall[p].storedOver # None
              => cCall[p].storedAt - cCall[p].storedOver[1].ts >= 600

----------------------------------------------------------------------------
(* What-if engine: the what-if route of handler + what_if_analysis *)

WhatIfIdPool == {ProdOrdersDb01, MyRdsDb, OneBad, BlankId}
WhatIfScenarioPool == {"primary_db_failure", "az_failure"}

\* The values requests give to the keys of config_overrides
OverrideValue ==
    [multi_az |-> TRUE, backup_retention_days |-> 0, allocated_storage |-> 2000,
     auto_minor_version_upgrade |-> TRUE, pitr_enabled |-> TRUE]

OverrideMaps ==
    { [k \in K |-> OverrideValue[k]] :
        K \in {X \in SUBSET (DOMAIN OverrideValue) : Cardinality(X) <= MaxOverrideKeys} }

WhatIfBodies ==
    { [db_identifier |-> id, scenario |-> sc, config_overrides |-> ov] :
        id \in WhatIfIdPool, sc \in WhatIfScenarioPool, ov \in OverrideMaps }

\* valid_fields of WhatIfRequest.validate_config_overrides
valid_fields ==
    <<"multi_az", "backup_retention_days", "storage_encrypted", "instance_class",
      "allocated_storage", "max_allocated_storage", "read_replicas",
      "auto_minor_version_upgrade">>

\* Variant: the emptiness test is missing.
validate_config_overrides_NoEmptyTest(v) ==
    IF \E key \in DOMAIN v : key \notin Range(valid_fields)
    THEN [ok |-> FALSE, error |-> Exc("ValidationError", "Invalid config field")]
    ELSE [ok |-> TRUE]

\* WhatIfRequest.validate_config_overrides (models.py 67-93)
validate_config_overrides(v) ==
    IF DOMAIN v = {}
    THEN [ok |-> FALSE, error |-> Exc("ValidationError", "config_overrides cannot be empty")]
    ELSE IF \E key \in DOMAIN v : key \notin Range(valid_fields)
    THEN [ok |-> FALSE, error |-> Exc("ValidationError", "Invalid config field")]
    ELSE [ok |-> TRUE]

\* WhatIfRequest(**body) (models.py 62-106): the identifier only has to be
\* non-blank here, and is stripped.
WhatIfRequest(body) ==
    IF Len(Strip(body.db_identifier)) = 0
    THEN [ok |-> FALSE, error |-> Exc("ValidationError", "db_identifier cannot be empty")]
    ELSE IF ~validate_scenario(body.scenario)
    THEN [ok |-> FALSE, error |-> Exc("ValidationError", "Invalid scenario")]
    ELSE IF ~validate_config_overrides(body.config_overrides).ok
    THEN [ok |-> FALSE, error |-> validate_config_overrides(body.config_overrides).error]
    ELSE [ok |-> TRUE, db_identifier |-> Strip(body.db_identifier),
          scenario |-> body.scenario, config_overrides |-> body.config_overrides]

\* Variant: pitr_enabled of the copy is derived again from its retention.
model_copy_RederivePitr(self, update) ==
    LET copy == [f \in DOMAIN self \cup DOMAIN update |->
                     IF f \in DOMAIN update THEN update[f] ELSE self[f]]
    IN  [self |-> self,
         copy |-> [copy EXCEPT !.pitr_enabled = copy.backup_retention_days > 0]]

\* Variant: the overrides are written into the baseline object itself.
model_copy_InPlace(self, update) ==
    LET merged == [f \in DOMAIN self \cup DOMAIN update |->
                       IF f \in DOMAIN update THEN update[f] ELSE self[f]]
    IN  [self |-> merged, copy |-> merged]

\* baseline_db_state.model_copy(update=...): a new object that has the
\* fields of self with the entries of update written over them; self as it
\* is after the call is returned along with the copy.
model_copy(self, update) ==
    [self |-> self,
     copy |-> [f \in DOMAIN self \cup DOMAIN update |->
                  IF f \in DOMAIN update THEN update[f] ELSE self[f]]]

\* Variant: the ranks of the batch sort, where CRITICAL is the smallest.
SEVERITY_ORDER_Inverted == [CRITICAL |-> 1, HIGH |-> 2, MEDIUM |-> 3, LOW |-> 4]

\* SEVERITY_ORDER of what_if_analysis
SEVERITY_ORDER == [CRITICAL |-> 4, HIGH |-> 3, MEDIUM |-> 2, LOW |-> 1]

\* Variant: a violation that the change introduces is reported as prevented.
improvement_summary_Swapped(baseline_analysis, what_if_analysis) ==
    [severity_improved |->
         SEVERITY_ORDER[what_if_analysis.business_severity]
             < SEVERITY_ORDER[baseline_analysis.business_severity],
     severity_change |->
         <<baseline_analysis.business_severity, " -> ", what_if_analysis.business_severity>>,
     rto_reduction_minutes |->
         baseline_analysis.expected_outage_time_minutes
             - what_if_analysis.expected_outage_time_minutes,
     sla_violation_prevented |-> what_if_analysis.sla_violation /\ ~baseline_analysis.sla_violation,
     rto_violation_prevented |-> what_if_analysis.rto_violation /\ ~baseline_analysis.rto_violation,
     rpo_violation_prevented |-> what_if_analysis.rpo_violation /\ ~baseline_analysis.rpo_violation]

\* what_if.py 27-49
improvement_summary(baseline_analysis, what_if_analysis) ==
    [severity_improved |->
         SEVERITY_ORDER[what_if_analysis.business_severity]
             < SEVERITY_ORDER[baseline_analysis.business_severity],
     severity_change |->
         <<baseline_analysis.business_severity, " -> ", what_if_analysis.business_severity>>,
     rto_reduction_minutes |->
         baseline_analysis.expected_outage_time_minutes
             - what_if_analysis.expected_outage_time_minutes,
     sla_violation_prevented |-> baseline_analysis.sla_violation /\ ~what_if_analysis.sla_violation,
     rto_violation_prevented |-> baseline_analysis.rto_violation /\ ~what_if_analysis.rto_violation,
     rpo_violation_prevented |-> baseline_analysis.rpo_violation /\ ~what_if_analysis.rpo_violation]

WhatIfResponse(baseline_analysis, what_if_analysis, summary) ==
    [baseline_analysis |-> baseline_analysis, what_if_analysis |-> what_if_analysis,
     improvement_summary |-> summary]

NewWhatIfState ==
    [request |-> None, resolved |-> None, baseline_db_state |-> None,
     what_if_db_state |-> None, baseline_analysis |-> None,
     what_if_analysis |-> None, error |-> None, runs |-> <<>>]

\* The arguments of one run_simulation call of what_if_analysis
RunArgs(db_state, is_what_if, baseline_config) ==
    [db_state |-> db_state, is_what_if |-> is_what_if, baseline_config |-> baseline_config]

\* lambda_handler.py 71: req = WhatIfRequest(**body); a ValidationError is
\* answered with status 400 and what_if_analysis is never entered.
WhatIfValidate ==
    /\ wPc = "request"
    /\ LET req == WhatIfRequest(wReq) IN
       IF req.ok
       THEN /\ wPc' = "resolve"
            /\ wState' = [wState EXCEPT !.request = Some(req)]
       ELSE /\ wPc' = "rejected"
            /\ wState' = [wState EXCEPT !.error = Some(req.error)]
    /\ UNCHANGED <<FAKE_DATABASES, wReq, wResp, wLog, wCalls, bvars, cvars, svars, fvars>>

\* what_if.py 14-20: the baseline configuration is fetched (it is the seed
\* object itself for a seeded identifier) and then the DbScenarioRequest of
\* the two analyses is built, which is where the identifier is matched.
WhatIfResolve ==
    /\ wPc = "resolve"
    /\ LET req == wState.request[1] IN
       /\ wLog' = Append(wLog, ResolveCall(FAKE_DATABASES, req.db_identifier))
       /\ \E c \in ResolveOutcomes(FAKE_DATABASES, req.db_identifier) :
             IF ~c.ok
             THEN /\ wPc' = "raised"
                  /\ wState' = [wState EXCEPT !.error = Some(c.error)]
             ELSE LET baseline_request == DbScenarioRequest(req.db_identifier, req.scenario) IN
                  IF ~baseline_request.ok
                  THEN /\ wPc' = "raised"
                       /\ wState' = [wState EXCEPT !.error = Some(baseline_request.error),
                                                   !.resolved = Some(c.config),
                                                   !.baseline_db_state = Some(c.config)]
                  ELSE /\ wPc' = "baseline"
                       /\ wState' = [wState EXCEPT !.resolved = Some(c.config),
                                                   !.baseline_db_state = Some(c.config)]
    /\ UNCHANGED <<FAKE_DATABASES, wReq, wResp, wCalls, bvars, cvars, svars, fvars>>

\* Variant: a failure of the baseline analysis is swallowed and the modified
\* analysis is run all the same.
WhatIfBaseline_GoesOn ==
    /\ wPc = "baseline"
    /\ \E o \in AnalyseOutcomes(WhatIfResultPool) :
          /\ wLog' = wLog \o o.calls
          /\ wPc' = "modified"
          /\ wState' = [wState EXCEPT
                           !.baseline_analysis =
                               IF o.ok THEN Some(o.result)
                               ELSE Some(DbImpactResponse(FALSE, FALSE, FALSE, "LOW")),
                           !.runs = Append(@, RunArgs(wState.baseline_db_state, FALSE, None))]
    /\ UNCHANGED <<FAKE_DATABASES, wReq, wResp, wCalls, bvars, cvars, svars, fvars>>

\* what_if.py 22: run_simulation(baseline_request, db_state=baseline_db_state)
WhatIfBaseline ==
    /\ wPc = "baseline"
    /\ \E o \in AnalyseOutcomes(WhatIfResultPool) :
          /\ wLog' = wLog \o o.calls
          /\ IF o.ok
             THEN /\ wPc' = "modified"
                  /\ wState' = [wState EXCEPT
                                   !.baseline_analysis = Some(o.result),
                                   !.runs = Append(@, RunArgs(wState.baseline_db_state, FALSE, None))]
             ELSE /\ wPc' = "raised"
                  /\ wState' = [wState EXCEPT
                                   !.error = Some(o.error),
                                   !.runs = Append(@, RunArgs(wState.baseline_db_state, FALSE, None))]
    /\ UNCHANGED <<FAKE_DATABASES, wReq, wResp, wCalls, bvars, cvars, svars, fvars>>

\* what_if.py 24-25: the modified configuration is derived and analysed.
WhatIfModified ==
    /\ wPc = "modified"
    /\ LET req == wState.request[1]
           overlay == model_copy(wState.baseline_db_state[1], req.config_overrides)
       IN  /\ FAKE_DATABASES' =
                  IF req.db_identifier \in DOMAIN FAKE_DATABASES
                  THEN [FAKE_DATABASES EXCEPT ![req.db_identifier] = overlay.self]
                  ELSE FAKE_DATABASES
           /\ \E o \in AnalyseOutcomes(WhatIfResultPool) :
                 /\ wLog' = wLog \o o.calls
                 /\ IF o.ok
                    THEN /\ wPc' = "summary"
                         /\ wState' = [wState EXCEPT !.baseline_db_state = Some(overlay.self),
                                                     !.what_if_db_state = Some(overlay.copy),
                                                     !.what_if_analysis = Some(o.result),
                                                     !.runs = Append(@, RunArgs(Some(overlay.copy), TRUE, Some(overlay.self)))]
                    ELSE /\ wPc' = "raised"
                         /\ wState' = [wState EXCEPT !.baseline_db_state = Some(overlay.self),
                                                     !.what_if_db_state = Some(overlay.copy),
                                                     !.error = Some(o.error),
                                                     !.runs = Append(@, RunArgs(Some(overlay.copy), TRUE, Some(overlay.self)))]
    /\ UNCHANGED <<wReq, wResp, wCalls, bvars, cvars, svars, fvars>>

\* what_if.py 27-56 and lambda_handler.py 74-78: the summary is computed
\* and the WhatIfResponse returned.
WhatIfRespond ==
    /\ wPc = "summary"
    /\ wResp' = Some(WhatIfResponse(wState.baseline_analysis[1], wState.what_if_analysis[1],
                       improvement_summary(wState.baseline_analysis[1], wState.what_if_analysis[1])))
    /\ wPc' = "returned"
    /\ UNCHANGED <<FAKE_DATABASES, wReq, wState, wLog, wCalls, bvars, cvars, svars, fvars>>

\* The handler is invoked with the next what-if request.
WhatIfAgain ==
    /\ wPc \in {"rejected", "raised", "returned"}
    /\ wCalls < MaxWhatIfCalls
    /\ wReq' \in WhatIfBodies
    /\ wPc' = "request"
    /\ wState' = NewWhatIfState
    /\ wResp' = None
    /\ wLog' = <<>>
    /\ wCalls' = wCalls + 1
    /\ UNCHANGED <<FAKE_DATABASES, bvars, cvars, svars, fvars>>

InitWhatIf ==
    /\ FAKE_DATABASES = InitialFakeDatabases
    /\ wReq \in WhatIfBodies
    /\ wPc = "request"
    /\ wState = NewWhatIfState
    /\ wResp = None
    /\ wLog = <<>>
    /\ wCalls = 1
    /\ InitBatchIdle
    /\ InitCacheIdle
    /\ InitSingleIdle
    /\ InitCallIdle

NextWhatIf ==
    \/ WhatIfValidate
    \/ WhatIfResolve
    \/ WhatIfBaseline
    \/ WhatIfModified
    \/ WhatIfRespond
    \/ WhatIfAgain

SpecWhatIf == InitWhatIf /\ [][NextWhatIf]_vars

----------------------------------------------------------------------------
(* Properties of the what-if engine *)

\* C8: the modified configuration has the baseline's value in every field
\* the overrides do not name and the override value in every field they
\* name; the baseline configuration and the seed directory are the same
\* after the call as before, over any sequence of what-if calls.
C8_OverlayLeavesBaseline ==
    /\ FAKE_DATABASES = InitialFakeDatabases
    /\ wState.what_if_db_state # None =>
          LET base == wState.resolved[1]
              modified == wState.what_if_db_state[1]
              overrides == wState.request[1].config_overrides
          IN  /\ \A f \in DOMAIN base \ DOMAIN overrides :
                    f \in DOMAIN modified /\ modified[f] = base[f]
              /\ \A f \in DOMAIN overrides :
                    f \in DOMAIN modified /\ modified[f] = overrides[f]
              /\ wState.baseline_db_state[1] = base

\* The second what-if call of a run has put multi_az = true over the seeded
\* prod-orders-db-01, whose baseline has multi_az = false.
C8_Witness ==
    /\ wCalls = 2
    /\ wPc = "returned"
    /\ wReq.db_identifier = ProdOrdersDb01
    /\ DOMAIN wReq.config_overrides = {"multi_az"}
    /\ wState.what_if_db_state[1].multi_az = TRUE
    /\ wState.baseline_db_state[1].multi_az = FALSE

AllowList ==
    {"multi_az", "backup_retention_days", "storage_encrypted", "instance_class",
     "allocated_storage", "max_allocated_storage", "read_replicas",
     "auto_minor_version_upgrade"}

\* C9: a what-if request whose overrides are empty or name a key outside
\* the allow-list is rejected with nothing resolved, no external call and
\* no response; a request with a non-empty map of allowed keys is rejected
\* only for its scenario or its identifier.
C9_BadOverridesRejectedFirst ==
    wPc \notin {"off", "request"} =>
        LET keys == DOMAIN wReq.config_overrides
            bad == keys = {} \/ \E k \in keys : k \notin AllowList
        IN  /\ bad => /\ wPc = "rejected"
                      /\ wLog = <<>>
                      /\ wResp = None
                      /\ wState.resolved = None
                      /\ wState.baseline_analysis = None
                      /\ wState.what_if_analysis = None
            /\ (~bad /\ wPc = "rejected") =>
                   \/ wReq.scenario \notin SCENARIOS
                   \/ Len(Strip(wReq.db_identifier)) = 0

\* A request for a seeded identifier and a registered scenario was rejected
\* because one of its two override keys is not in the allow-list.
C9_Witness ==
    /\ wPc = "rejected"
    /\ wReq.db_identifier = ProdOrdersDb01
    /\ wReq.scenario = "primary_db_failure"
    /\ DOMAIN wReq.config_overrides = {"multi_az", "pitr_enabled"}
    /\ wLog = <<>>

\* C10: in every WhatIfResponse each of sla / rto / rpo _violation_prevented
\* is (baseline violation and not modified violation) of its own category,
\* hence false whenever the baseline has no violation.
C10_PreventedPerCategory ==
    wPc = "returned" =>
        LET b == wState.baseline_analysis[1]
            m == wState.what_if_analysis[1]
            r == wResp[1]
            s == wResp[1].improvement_summary
        IN  /\ r.baseline_analysis = b
            /\ r.what_if_analysis = m
            /\ s.sla_violation_prevented = (b.sla_violation /\ ~m.sla_violation)
            /\ s.rto_violation_prevented = (b.rto_violation /\ ~m.rto_violation)
            /\ s.rpo_violation_prevented = (b.rpo_violation /\ ~m.rpo_violation)
            /\ ~b.sla_violation => ~s.sla_violation_prevented
            /\ ~b.rto_violation => ~s.rto_violation_prevented
            /\ ~b.rpo_violation => ~s.rpo_violation_prevented

\* A response in which the SLA violation is prevented while an RTO
\* violation appears only in the modified run and is not reported prevented.
C10_Witness ==
    /\ wPc = "returned"
    /\ wResp[1].baseline_analysis.sla_violation
    /\ ~wResp[1].what_if_analysis.sla_violation
    /\ wResp[1].improvement_summary.sla_violation_prevented
    /\ ~wResp[1].baseline_analysis.rto_violation
    /\ wResp[1].what_if_analysis.rto_violation
    /\ ~wResp[1].improvement_summary.rto_violation_prevented

\* The ordinal LOW < MEDIUM < HIGH < CRITICAL
SeverityRank(sev) ==
    CASE sev = "LOW" -> 0 [] sev = "MEDIUM" -> 1 [] sev = "HIGH" -> 2 [] sev = "CRITICAL" -> 3

\* C11: in every WhatIfResponse severity_improved is true exactly when the
\* modified severity ranks strictly below the baseline severity (false when
\* equal or worse), and severity_change names the baseline severity and then
\* the modified severity.
C11_SeverityImproved ==
    wPc = "returned" =>
        LET b == wResp[1].baseline_analysis.business_severity
            m == wResp[1].what_if_analysis.business_severity
            s == wResp[1].improvement_summary
        IN  /\ s.severity_improved = (SeverityRank(m) < SeverityRank(b))
            /\ s.severity_change = <<b, " -> ", m>>
            /\ wResp[1].baseline_analysis = wState.baseline_analysis[1]
            /\ wResp[1].what_if_analysis = wState.what_if_analysis[1]

\* A response whose baseline is CRITICAL and whose modified run is MEDIUM,
\* reported as an improvement "CRITICAL -> MEDIUM".
C11_Witness ==
    /\ wPc = "returned"
    /\ wResp[1].baseline_analysis.business_severity = "CRITICAL"
    /\ wResp[1].what_if_analysis.business_severity = "MEDIUM"
    /\ wResp[1].improvement_summary.severity_improved
    /\ wResp[1].improvement_summary.severity_change = <<"CRITICAL", " -> ", "MEDIUM">>

----------------------------------------------------------------------------
(* The text of the reasoning service and its parsing (reasoning.py 37-48). *)
(* A text is a sequence of tokens: the braces, the JSON punctuation,       *)
(* whitespace, quoted keys, value literals, and words of prose.  Numbers   *)
(* with a fraction are kept in hundredths (0.86 is 86).                    *)

RequiredFields ==
    <<"sla_violation", "rto_violation", "rpo_violation", "expected_outage_time_minutes",
      "business_severity", "why", "recommendations", "confidence">>

\* The quoted key of a member, as it stands in the text
KeyToken(field) ==
    CASE field = "sla_violation" -> "\"sla_violation\""
      [] field = "rto_violation" -> "\"rto_violation\""
      [] field = "rpo_violation" -> "\"rpo_violation\""
      [] field = "expected_outage_time_minutes" -> "\"expected_outage_time_minutes\""
      [] field = "business_severity" -> "\"business_severity\""
      [] field = "why" -> "\"why\""
      [] field = "recommendations" -> "\"recommendations\""
      [] field = "confidence" -> "\"confidence\""
      [] field = "notes" -> "\"notes\""

KeyTokens == {KeyToken(f) : f \in Range(RequiredFields) \cup {"notes"}}

\* JSON value literals of the model, by the JSON type they decode to
JsonBooleans == {"true", "false"}
JsonIntegers == {"0", "1", "45", "-5"}
JsonFractions == {"0.86", "1.5", "-0.2", "12.5"}
JsonStrings == {"\"LOW\"", "\"MEDIUM\"", "\"HIGH\"", "\"CRITICAL\"", "\"SEVERE\"", "\"high\""}
JsonArrays == {"[\"replica promoted\"]", "[]"}
JsonNull == {"null"}
ValueTokens ==
    JsonBooleans \cup JsonIntegers \cup JsonFractions \cup JsonStrings \cup JsonArrays \cup JsonNull

\* The number a numeric literal denotes, in hundredths
NumberOf(tok) ==
    CASE tok = "0" -> 0 [] tok = "1" -> 100 [] tok = "45" -> 4500 [] tok = "-5" -> -500
      [] tok = "0.86" -> 86 [] tok = "1.5" -> 150 [] tok = "-0.2" -> -20 [] tok = "12.5" -> 1250

\* The Python str a string literal denotes
StringOf(tok) ==
    CASE tok = "\"LOW\"" -> "LOW" [] tok = "\"MEDIUM\"" -> "MEDIUM" [] tok = "\"HIGH\"" -> "HIGH"
      [] tok = "\"CRITICAL\"" -> "CRITICAL" [] tok = "\"SEVERE\"" -> "SEVERE" [] tok = "\"high\"" -> "high"

\* The list of str an array literal denotes
ListOf(tok) == IF tok = "[]" THEN <<>> ELSE <<"replica promoted">>

\* str.find / str.rfind of one token; 0 stands for Python's -1 (positions
\* are counted from 1 here)
str_find(text, tok) ==
    IF \E i \in 1..Len(text) : text[i] = tok
    THEN CHOOSE i \in 1..Len(text) : text[i] = tok /\ \A j \in 1..(i - 1) : text[j] # tok
    ELSE 0

str_rfind(text, tok) ==
    IF \E i \in 1..Len(text) : text[i] = tok
    THEN CHOOSE i \in 1..Len(text) : text[i] = tok /\ \A j \in (i + 1)..Len(text) : text[j] # tok
    ELSE 0

\* The JSON decoder on a text: the members of the one object the text
\* consists of (key token -> value token, a repeated key keeps its last
\* value), or a failure when the text is not exactly one object.
JsonObject(text) ==
    LET w == SelectSeq(text, LAMBDA t : t \notin Whitespace)
        inner == SubSeq(w, 2, Len(w) - 1)
        n == (Len(inner) + 1) \div 4
        wellFormed ==
            /\ Len(w) >= 2
            /\ w[1] = "{"
            /\ w[Len(w)] = "}"
            /\ \/ Len(inner) = 0
               \/ /\ Len(inner) % 4 = 3
                  /\ \A i \in 0..(n - 1) :
                        /\ inner[4 * i + 1] \in KeyTokens
                        /\ inner[4 * i + 2] = ":"
                        /\ inner[4 * i + 3] \in ValueTokens
                        /\ i < n - 1 => inner[4 * i + 4] = ","
    IN  IF ~wellFormed THEN [ok |-> FALSE]
        ELSE [ok |-> TRUE,
              members |->
                  [k \in {inner[4 * i + 1] : i \in 0..(n - 1)} |->
                      LET last == CHOOSE i \in 0..(n - 1) :
                                      /\ inner[4 * i + 1] = k
                                      /\ \A j \in (i + 1)..(n - 1) : inner[4 * j + 1] # k
                      IN  inner[4 * last + 3]]]

\* pydantic's validation of one JSON value against a field type (lax mode):
\* the Python value, or no value when the literal does not validate.
ValidateBool(tok) ==
    IF tok \in JsonBooleans THEN Some(tok = "true")
    ELSE IF tok \in {"0", "1"} THEN Some(tok = "1")
    ELSE None

ValidateInt(tok) ==
    IF tok \in JsonIntegers THEN Some(NumberOf(tok) \div 100)
    ELSE IF tok \in JsonBooleans THEN Some(IF tok = "true" THEN 1 ELSE 0)
    ELSE IF tok \in JsonFractions /\ NumberOf(tok) % 100 = 0 THEN Some(NumberOf(tok) \div 100)
    ELSE None

\* float: any JSON number, of any size and sign (kept in hundredths)
ValidateFloat(tok) ==
    IF tok \in JsonIntegers \cup JsonFractions THEN Some(NumberOf(tok))
    ELSE IF tok \in JsonBooleans THEN Some(IF tok = "true" THEN 100 ELSE 0)
    ELSE None

\* Literal["LOW", "MEDIUM", "HIGH", "CRITICAL"]
ValidateSeverity(tok) ==
    IF tok \in JsonStrings /\ StringOf(tok) \in Severities THEN Some(StringOf(tok)) ELSE None

\* list[str]
ValidateStrList(tok) == IF tok \in JsonArrays THEN Some(ListOf(tok)) ELSE None

\* DbImpactResponse.model_validate_json(text) (models.py 27-35): the text
\* must be one JSON object that has the eight fields, each of its type;
\* other members are ignored.  No field has a default and none has a range.
model_validate_json(text) ==
    LET decoded == JsonObject(text)
        m == decoded.members
        field(f) == m[KeyToken(f)]
    IN  IF ~decoded.ok
        THEN [ok |-> FALSE, error |-> Exc("ValidationError", "Invalid JSON")]
        ELSE IF \E f \in Range(RequiredFields) : KeyToken(f) \notin DOMAIN m
        THEN [ok |-> FALSE, error |-> Exc("ValidationError", "Field required")]
        ELSE IF \/ \E f \in {"sla_violation", "rto_violation", "rpo_violation"} :
                      ValidateBool(field(f)) = None
                \/ ValidateInt(field("expected_outage_time_minutes")) = None
                \/ ValidateSeverity(field("business_severity")) = None
                \/ \E f \in {"why", "recommendations"} : ValidateStrList(field(f)) = None
                \/ ValidateFloat(field("confidence")) = None
        THEN [ok |-> FALSE, error |-> Exc("ValidationError", "Input should be a valid value")]
        ELSE [ok |-> TRUE,
              result |->
                  [sla_violation |-> ValidateBool(field("sla_violation"))[1],
                   rto_violation |-> ValidateBool(field("rto_violation"))[1],
                   rpo_violation |-> ValidateBool(field("rpo_violation"))[1],
                   expected_outage_time_minutes |->
                       ValidateInt(field("expected_outage_time_minutes"))[1],
                   business_severity |-> ValidateSeverity(field("business_severity"))[1],
                   why |-> ValidateStrList(field("why"))[1],
                   recommendations |-> ValidateStrList(field("recommendations"))[1],
                   confidence |-> ValidateFloat(field("confidence"))[1]]]

\* Variant: the text is handed to the validator as it came, unsliced.
ParseReasoningOutput_NoSlice(raw_response) == model_validate_json(Strip(raw_response))

\* reasoning.py 38-48: strip, cut from the first "{" to the last "}" when
\* both are found, validate.  text[first:last + 1] is empty when the last
\* "}" stands before the first "{".
ParseReasoningOutput(raw_response) ==
    LET cleaned_response == Strip(raw_response)
        first_brace == str_find(cleaned_response, "{")
        last_brace == str_rfind(cleaned_response, "}")
    IN  IF first_brace # 0 /\ last_brace # 0
        THEN model_validate_json(SubSeq(cleaned_response, first_brace, last_brace))
        ELSE model_validate_json(cleaned_response)

----------------------------------------------------------------------------
(* Replies of the reasoning service offered to a single analysis *)

Member(field, value) == <<KeyToken(field), ":", value>>

\* The text of an object with the given <<field, value literal>> members
RECURSIVE MembersText(_)
MembersText(members) ==
    IF Len(members) = 0 THEN <<>>
    ELSE IF Len(members) = 1 THEN Member(members[1][1], members[1][2])
    ELSE Member(members[1][1], members[1][2]) \o <<",">> \o MembersText(Tail(members))

ObjectText(members) == <<"{">> \o MembersText(members) \o <<"}">>

\* The eight members of a reply, with the given severity, confidence and
\* outage literals
ReplyMembers(sev, conf, outage) ==
    << <<"sla_violation", "true">>, <<"rto_violation", "false">>, <<"rpo_violation", "false">>,
       <<"expected_outage_time_minutes", outage>>, <<"business_severity", sev>>,
       <<"why", "[\"replica promoted\"]">>, <<"recommendations", "[]">>,
       <<"confidence", conf>> >>

WithoutMember(members, i) == SubSeq(members, 1, i - 1) \o SubSeq(members, i + 1, Len(members))

\* Objects the service can answer with: every field present and typed (in
\* and out of range), a severity outside the four ranks, one field missing,
\* a null or fractional value, an additional member, the empty object.
ReplyObjects ==
    {ObjectText(ReplyMembers(sev, conf, outage)) :
        sev \in {"\"LOW\"", "\"CRITICAL\""}, conf \in {"0.86", "1.5", "-0.2", "0", "1"},
        outage \in {"45", "-5"}}
    \cup {ObjectText(ReplyMembers(sev, "0.86", "45")) : sev \in {"\"SEVERE\"", "\"high\""}}
    \cup {ObjectText(WithoutMember(ReplyMembers("\"HIGH\"", "0.86", "45"), i)) : i \in 1..8}
    \cup {ObjectText(ReplyMembers("\"HIGH\"", "null", "45")),
          ObjectText(ReplyMembers("\"HIGH\"", "0.86", "12.5")),
          ObjectText(Append(ReplyMembers("\"MEDIUM\"", "0.86", "0"), <<"notes", "null">>)),
          ObjectText(<<>>)}

\* Text before and after the object: nothing, whitespace, prose, a code
\* fence (three backquotes, written <fence> here), and prose that has a
\* brace of its own.
ReplyPrefixes ==
    {<<>>, <<"Here you go:", "\n", "<fence>json", "\n">>, <<" ", "\n">>,
     <<"Failover", "{", "estimate", "}", ":", "\n">>, <<"1", "}", " ">>}

ReplySuffixes ==
    {<<>>, <<"\n", "<fence>">>, <<"\n">>, <<"\n", "(see", "}", "above)">>}

\* A reply in its three parts, and the raw text it is
Reply(prefix, body, suffix) == [prefix |-> prefix, body |-> body, suffix |-> suffix]

RawText(reply) == reply.prefix \o reply.body \o reply.suffix

ReplyPool ==
    {Reply(pre, obj, suf) : pre \in ReplyPrefixes, obj \in ReplyObjects, suf \in ReplySuffixes}
    \cup {Reply(<<>>, body, <<>>) :
             body \in {<<>>, <<"I", "cannot", "answer">>, <<"}", "\n", "{">>, <<"null">>}}

----------------------------------------------------------------------------
(* Single analysis: analyze (single_analyzer.py) over run_simulation       *)
(* (reasoning.py), step by step.  run_simulation is also entered the way   *)
(* what_if_analysis enters it, with the configuration already in hand.     *)

SingleIdPool == {ProdOrdersDb01, MyRdsDb, GhostDb, OneBad, BlankId}
SingleScenarioPool == {"primary_db_failure", "az_failure"}

\* The calls offered: analyze(request), which passes no configuration, and
\* run_simulation(request, db_state=<the seed entry>) for a seeded identifier.
SingleCalls ==
    {[caller |-> "analyze", db_identifier |-> id, scenario |-> sc, db_state |-> None] :
        id \in SingleIdPool, sc \in SingleScenarioPool}
    \cup {[caller |-> "run_simulation", db_identifier |-> ProdOrdersDb01,
           scenario |-> "primary_db_failure",
           db_state |-> Some(InitialFakeDatabases[ProdOrdersDb01])]}

\* call_bedrock(prompt) (reasoning.py 54-92): the text of the reply, or the
\* exception the ClientError of the service is turned into
call_bedrock ==
    { [ok |-> TRUE, reply |-> r] : r \in ReplyPool }
    \cup { [ok |-> FALSE, error |-> Exc("PermissionError", "No permission to access bedrock")],
           [ok |-> FALSE, error |-> Exc("ValueError", "Throttling exception from bedrock - too many requests")],
           [ok |-> FALSE, error |-> Exc("ClientError", "ServiceUnavailableException")] }

\* What cloudwatch.put_metric_data can do
SinkOutcomes == {"accepted", "raises"}

\* Variant: the exception of the sink leaves the emitter.
emit_analysis_metric_Uncaught(sink) == [raised |-> sink = "raises", recorded |-> sink = "accepted"]

\* emit_analysis_metric (cloudwatch_metric.py 13-90): one put_metric_data
\* call inside try / except Exception; nothing is raised to the caller.
emit_analysis_metric(sink) == [raised |-> FALSE, recorded |-> sink = "accepted"]

NewSingleState ==
    [request |-> None, db_state |-> None, prompt_config |-> None, raw_response |-> None,
     response |-> None, error |-> None, metric |-> "none"]

\* The DbScenarioRequest that is the argument of analyze / run_simulation
\* is constructed (lambda_handler.py 91, what_if.py 20).
SingleValidate ==
    /\ sPc = "request"
    /\ LET req == DbScenarioRequest(sReq.db_identifier, sReq.scenario) IN
       IF req.ok
       THEN /\ sPc' = "resolve"
            /\ sState' = [sState EXCEPT !.request = Some(req), !.db_state = sReq.db_state]
       ELSE /\ sPc' = "rejected"
            /\ sState' = [sState EXCEPT !.error = Some(req.error)]
    /\ UNCHANGED <<sReq, sLog, bvars, cvars, wvars, fvars>>

\* Variant: the configuration is fetched even when one was passed in.
SingleResolve_AlwaysFetch ==
    /\ sPc = "resolve"
    /\ LET id == sState.request[1].db_identifier IN
       /\ sLog' = Append(sLog, ResolveCall(FAKE_DATABASES, id))
       /\ \E c \in ResolveOutcomes(FAKE_DATABASES, id) :
             IF c.ok
             THEN /\ sPc' = "context"
                  /\ sState' = [sState EXCEPT !.db_state = Some(c.config)]
             ELSE /\ sPc' = "raised"
                  /\ sState' = [sState EXCEPT !.error = Some(c.error)]
    /\ UNCHANGED <<sReq, bvars, cvars, wvars, fvars>>

\* reasoning.py 20-28: the configuration is fetched unless it was passed in.
SingleResolve ==
    /\ sPc = "resolve"
    /\ IF sState.db_state # None
       THEN /\ sPc' = "context"
            /\ UNCHANGED <<sState, sLog>>
       ELSE LET id == sState.request[1].db_identifier IN
            /\ sLog' = Append(sLog, ResolveCall(FAKE_DATABASES, id))
            /\ \E c \in ResolveOutcomes(FAKE_DATABASES, id) :
                  IF c.ok
                  THEN /\ sPc' = "context"
                       /\ sState' = [sState EXCEPT !.db_state = Some(c.config)]
                  ELSE /\ sPc' = "raised"
                       /\ sState' = [sState EXCEPT !.error = Some(c.error)]
    /\ UNCHANGED <<sReq, bvars, cvars, wvars, fvars>>

\* reasoning.py 30: load_business_context()
SingleContext ==
    /\ sPc = "context"
    /\ sLog' = Append(sLog, "load_business_context")
    /\ \E b \in BusinessContextOutcomes :
          IF b.ok
          THEN /\ sPc' = "prompt"
               /\ UNCHANGED sState
          ELSE /\ sPc' = "raised"
               /\ sState' = [sState EXCEPT !.error = Some(b.error)]
    /\ UNCHANGED <<sReq, bvars, cvars, wvars, fvars>>

\* reasoning.py 32: build_prompt(request, db_state, business_context, ...)
SingleBuildPrompt ==
    /\ sPc = "prompt"
    /\ sLog' = Append(sLog, "build_prompt")
    /\ sState' = [sState EXCEPT !.prompt_config = sState.db_state]
    /\ sPc' = "invoke"
    /\ UNCHANGED <<sReq, bvars, cvars, wvars, fvars>>

\* reasoning.py 34: raw_response = call_bedrock(prompt)
SingleInvoke ==
    /\ sPc = "invoke"
    /\ sLog' = Append(sLog, "call_bedrock")
    /\ \E o \in call_bedrock :
          IF o.ok
          THEN /\ sPc' = "parse"
               /\ sState' = [sState EXCEPT !.raw_response = Some(o.reply)]
          ELSE /\ sPc' = "raised"
               /\ sState' = [sState EXCEPT !.error = Some(o.error)]
    /\ UNCHANGED <<sReq, bvars, cvars, wvars, fvars>>

\* reasoning.py 37-52: the reply is parsed and run_simulation returns the
\* result, to analyze (which goes on to the metric) or to its other caller.
SingleParse ==
    /\ sPc = "parse"
    /\ sLog' = Append(sLog, "model_validate_json")
    /\ LET parsed == ParseReasoningOutput(RawText(sState.raw_response[1])) IN
       IF parsed.ok
       THEN /\ sState' = [sState EXCEPT !.response = Some(parsed.result)]
            /\ sPc' = IF sReq.caller = "analyze" THEN "emit" ELSE "returned"
       ELSE /\ sState' = [sState EXCEPT !.error = Some(parsed.error)]
            /\ sPc' = "raised"
    /\ UNCHANGED <<sReq, bvars, cvars, wvars, fvars>>

\* single_analyzer.py 14-18: the metric is emitted and the response returned.
SingleEmit ==
    /\ sPc = "emit"
    /\ sLog' = Append(sLog, "put_metric_data")
    /\ \E sink \in SinkOutcomes :
          LET e == emit_analysis_metric(sink) IN
          IF e.raised
          THEN /\ sPc' = "raised"
               /\ sState' = [sState EXCEPT !.response = None,
                                           !.error = Some(Exc("Exception", "put_metric_data")),
                                           !.metric = "failed"]
          ELSE /\ sPc' = "returned"
               /\ sState' = [sState EXCEPT !.metric = IF e.recorded THEN "recorded" ELSE "failed"]
    /\ UNCHANGED <<sReq, bvars, cvars, wvars, fvars>>

InitSingle ==
    /\ sReq \in SingleCalls
    /\ sPc = "request"
    /\ sState = NewSingleState
    /\ sLog = <<>>
    /\ InitBatchIdle
    /\ InitCacheIdle
    /\ InitWhatIfIdle
    /\ InitCallIdle

NextSingle ==
    \/ SingleValidate
    \/ SingleResolve
    \/ SingleContext
    \/ SingleBuildPrompt
    \/ SingleInvoke
    \/ SingleParse
    \/ SingleEmit

SpecSingle == InitSingle /\ [][NextSingle]_vars

----------------------------------------------------------------------------
(* Properties of the parsing of the reasoning output *)

\* C12: every result run_simulation returns has its severity among the four
\* ranks, its confidence in [0, 1] (0..100 hundredths) and an expected
\* outage of at least 0 minutes.
C12_ResultInRange ==
    sState # None /\ sState.response # None =>
        LET r == sState.response[1] IN
        /\ r.business_severity \in {"LOW", "MEDIUM", "HIGH", "CRITICAL"}
        /\ r.confidence >= 0 /\ r.confidence <= 100
        /\ r.expected_outage_time_minutes >= 0

\* The candidate of a raw text: what stands from its first "{" to its last
\* "}", or nothing
Candidate(raw) ==
    LET first == str_find(raw, "{")
        last == str_rfind(raw, "}")
    IN  IF first # 0 /\ last # 0 THEN SubSeq(raw, first, last) ELSE <<>>

\* C13: run_simulation has a result only if the text holds a JSON object
\* between its first "{" and its last "}" that has the eight required
\* fields, a severity of the four ranks and a confidence in [0, 1], and then
\* the severity and the confidence of the result are those of the text;
\* otherwise it raises and there is no result.
C13_ParseFailsClosed ==
    sState # None /\ sState.response # None =>
        LET obj == JsonObject(Candidate(RawText(sState.raw_response[1])))
            r == sState.response[1]
        IN  /\ obj.ok
            /\ \A f \in Range(RequiredFields) : KeyToken(f) \in DOMAIN obj.members
            /\ obj.members[KeyToken("business_severity")]
                  \in {"\"LOW\"", "\"MEDIUM\"", "\"HIGH\"", "\"CRITICAL\""}
            /\ obj.members[KeyToken("confidence")] \in JsonIntegers \cup JsonFractions
            /\ NumberOf(obj.members[KeyToken("confidence")]) \in 0..100
            /\ r.confidence = NumberOf(obj.members[KeyToken("confidence")])
            /\ r.business_severity = StringOf(obj.members[KeyToken("business_severity")])

\* The reply of a finished parse step
Parsed == sState # None /\ sState.raw_response # None /\ sPc \in {"emit", "returned", "raised"}

\* C14 as stated: whatever text surrounds an object that validates, the
\* result is the result of the object alone.
C14_AnySurroundingText ==
    Parsed =>
        LET reply == sState.raw_response[1] IN
        model_validate_json(reply.body).ok
            => sState.response = Some(ParseReasoningOutput(reply.body).result)

\* C14: when the text before an object that validates has no "{" and the
\* text after it has no "}", the result is the result of the object alone.
C14_BraceFreeSurroundingText ==
    Parsed =>
        LET reply == sState.raw_response[1] IN
        (/\ model_validate_json(reply.body).ok
         /\ str_find(reply.prefix, "{") = 0
         /\ str_rfind(reply.suffix, "}") = 0)
            => sState.response = Some(ParseReasoningOutput(reply.body).result)

\* The object stood inside a code fence after a line of prose, and a result
\* came out of it.
C14_Witness ==
    /\ sPc = "returned"
    /\ sState.raw_response[1].prefix = <<"Here you go:", "\n", "<fence>json", "\n">>
    /\ sState.raw_response[1].suffix = <<"\n", "<fence>">>
    /\ sState.response # None
    /\ sState.response[1].business_severity = "CRITICAL"

----------------------------------------------------------------------------
(* Properties of the single analysis *)

IsPrefix(a, b) == Len(a) <= Len(b) /\ SubSeq(b, 1, Len(a)) = a

ResolverCalls == {"get_fake_db_state", "describe_db_instances"}

\* The steps of a call in the order of the claim
StepsInOrder(call) ==
    (IF call.db_state = None
     THEN <<ResolveCall(InitialFakeDatabases, Strip(call.db_identifier))>> ELSE <<>>)
    \o <<"load_business_context", "build_prompt", "call_bedrock", "model_validate_json">>
    \o (IF call.caller = "analyze" THEN <<"put_metric_data">> ELSE <<>>)

----------------------------------------------------------------------------
(* analyze and batch_analyze, for the claims that span both *)

SpecTelemetry == (InitBatch \/ InitSingle) /\ [][NextBatch \/ NextSingle]_vars

\* C16: whether put_metric_data succeeds or raises, analyze returns the
\* result of the parse and batch_analyze the response it built from its
\* counters and items, and no call ends with an exception once the emitter
\* was entered.
C16_SinkFailureNotSurfaced ==
    /\ sPc # "off" =>
          /\ "put_metric_data" \in Range(sLog) =>
                /\ sPc = "returned"
                /\ sState.metric \in {"recorded", "failed"}
                /\ sState.error = None
                /\ sState.response
                      = Some(ParseReasoningOutput(RawText(sState.raw_response[1])).result)
          /\ (sPc = "returned" /\ sReq.caller = "analyze") => "put_metric_data" \in Range(sLog)
    /\ bPc # "off" =>
          /\ bMetric # "none" =>
                /\ bPc = "returned"
                /\ bResp = Some(BatchResponse(severity_counts, results))
          /\ bPc = "returned" => bMetric \in {"emitted", "failed"}

\* analyze returned its result although the sink raised.
C16_Witness ==
    /\ sPc = "returned"
    /\ sReq.caller = "analyze"
    /\ sState.metric = "failed"
    /\ sState.response # None

----------------------------------------------------------------------------
(* Further properties of the what-if engine *)

Occurrences(log, x) == Cardinality({i \in 1..Len(log) : log[i] = x})

\* C17: a what_if_analysis call that returns has emitted exactly one
\* what-if telemetry record, after both analyses.
C17_OneWhatIfRecord ==
    wPc = "returned" =>
        /\ Occurrences(wLog, "put_metric_data") = 1
        /\ wLog[Len(wLog)] = "put_metric_data"

\* C18: a request whose identifier does not match the pattern or whose
\* scenario is not registered is rejected before any configuration fetch,
\* business-context load or reasoning call, at the what-if entry point and
\* at the single-analysis entry point.
C18_InvalidRejectedBeforeWork ==
    /\ (/\ wPc \notin {"off", "request"}
        /\ \/ ~ReMatchRdsIdentifier(wReq.db_identifier)
           \/ wReq.scenario \notin SCENARIOS)
          => /\ wPc = "rejected"
             /\ wLog = <<>>
             /\ wState.resolved = None
    /\ (/\ sPc \notin {"off", "request"}
        /\ \/ ~ReMatchRdsIdentifier(sReq.db_identifier)
           \/ sReq.scenario \notin SCENARIOS)
          => /\ sPc = "rejected"
             /\ sLog = <<>>
             /\ sState.db_state = None

\* C20: every configuration handed to the prompt builder in a what-if run,
\* the baseline and the modified one, has
\* max_allocated_storage >= allocated_storage.
C20_MaxStorageAtLeastAllocated ==
    wPc \notin {"off", "request"} =>
        /\ wState.baseline_analysis # None =>
              wState.baseline_db_state[1].max_allocated_storage
                  >= wState.baseline_db_state[1].allocated_storage
        /\ wState.what_if_analysis # None =>
              wState.what_if_db_state[1].max_allocated_storage
                  >= wState.what_if_db_state[1].allocated_storage

----------------------------------------------------------------------------
(* Properties of configuration resolution *)

\* The failure kind of the claim that an exception of the fetch stands for,
\* if any: NotFound, PermissionDenied or Timeout
FailureKind(error) ==
    CASE error.type = "ValueError" -> "NotFound"
      [] error.type = "PermissionError" -> "PermissionDenied"
      [] error.type \in {"ConnectTimeoutError", "ReadTimeoutError"} -> "Timeout"
      [] OTHER -> "none"

\* C19: an identifier of the seed directory is resolved without a describe
\* call, any other identifier with exactly one describe call and no second
\* one after a failure, and a resolution that fails does so as NotFound,
\* PermissionDenied or Timeout.
C19_SeedFirstOneDescribe ==
    (sPc \notin {"off", "request", "rejected", "resolve"} /\ sReq.db_state = None) =>
        LET id == sState.request[1].db_identifier IN
        /\ id \in DOMAIN InitialFakeDatabases =>
              /\ Occurrences(sLog, "describe_db_instances") = 0
              /\ sState.db_state = Some(InitialFakeDatabases[id])
        /\ id \notin DOMAIN InitialFakeDatabases =>
              /\ Occurrences(sLog, "describe_db_instances") = 1
              /\ sLog[1] = "describe_db_instances"
        /\ (sPc = "raised" /\ Len(sLog) = 1) =>
              FailureKind(sState.error[1]) \in {"NotFound", "PermissionDenied", "Timeout"}

----------------------------------------------------------------------------
(* Properties of the sequence of a what-if run *)

\* C25: a what_if_analysis call fetches the baseline configuration once
\* and before anything else, then runs the baseline analysis on it without
\* the what-if flag, then the what-if-flagged analysis on the modified
\* configuration with the baseline configuration passed along; no analysis
\* fetches a configuration; when the baseline analysis fails there is no
\* second analysis and no response.
C25_ResolveOnceTwoRunsInOrder ==
    wPc \notin {"off", "request", "rejected"} =>
        /\ \A i \in 1..Len(wLog) : (wLog[i] \in ResolverCalls) = (i = 1)
        /\ Occurrences(wLog, "call_bedrock") <= 2
        /\ Len(wState.runs) <= 2
        /\ Len(wState.runs) >= 1 =>
              /\ wState.runs[1] = RunArgs(wState.resolved, FALSE, None)
              /\ wState.resolved # None
        /\ Len(wState.runs) = 2 =>
              /\ wState.baseline_analysis # None
              /\ wState.runs[2] = RunArgs(wState.what_if_db_state, TRUE, wState.resolved)
        /\ wState.baseline_analysis = None =>
              /\ Len(wState.runs) <= 1
              /\ wState.what_if_analysis = None
              /\ wResp = None
              /\ wPc # "returned"
        /\ wPc = "returned" =>
              /\ Len(wState.runs) = 2
              /\ Len(wLog) = 5
              /\ Occurrences(wLog, "call_bedrock") = 2

\* A call whose baseline analysis failed in the reasoning call: one fetch,
\* one run, no response.
C25_Witness ==
    /\ wPc = "raised"
    /\ wLog = <<"describe_db_instances", "load_business_context", "call_bedrock">>
    /\ Len(wState.runs) = 1
    /\ wState.baseline_analysis = None
    /\ wResp = None

\* C30: the modified configuration of a what-if run has the pitr_enabled of
\* the baseline, also when backup_retention_days is overridden.
C30_PitrFollowsBaseline ==
    (wPc \notin {"off", "request"} /\ wState.what_if_db_state # None) =>
        /\ "pitr_enabled" \notin DOMAIN wState.request[1].config_overrides
        /\ wState.what_if_db_state[1].pitr_enabled = wState.resolved[1].pitr_enabled

\* The retention of an instance with point-in-time recovery was overridden
\* to 0 and the modified configuration still has pitr_enabled.
C30_Witness ==
    /\ wPc = "returned"
    /\ wState.resolved[1].pitr_enabled
    /\ wState.resolved[1].backup_retention_days = 7
    /\ wState.what_if_db_state[1].backup_retention_days = 0
    /\ wState.what_if_db_state[1].pitr_enabled

----------------------------------------------------------------------------
(* Further properties of the result cache *)

\* C27: a single-analysis request that misses the cache runs the full
\* sequence of the single orchestrator, the one analysis telemetry record
\* included, and a request served from a live entry makes no external call.
C27_MissRunsOrchestratorWithTelemetry ==
    \A p \in DOMAIN cPc :
        cPc[p] = "returned" =>
            IF cCall[p].invoked
            THEN /\ Occurrences(cCall[p].calls, "call_bedrock") = 1
                 /\ Occurrences(cCall[p].calls, "put_metric_data") = 1
            ELSE cCall[p].calls = <<>>

CacheInProgress(p) == cPc[p] \in {"lookup", "read", "evict", "run"}

\* C28: when run_simulation fails inside get_cached_or_run_simulation the
\* cache has no entry for the key afterwards and nothing was stored, the
\* entries of the other keys are as before the call, the next call for the
\* key invokes run_simulation again, and what the cache holds and serves
\* are results only.
C28_FailureLeavesNoEntry ==
    /\ [](\A p \in DOMAIN cPc :
            /\ (cPc[p] = "raised" /\ cCall[p].invoked) =>
                  /\ cCall[p].key \notin DOMAIN CACHE
                  /\ cCall[p].storedAt = -1
                  /\ cCall[p].returned = None
            /\ (cCall[p].afterFailure /\ cPc[p] \in {"returned", "raised"}) => cCall[p].invoked
            /\ cCall[p].returned # None => cCall[p].returned[1] \in CacheResultPool)
    /\ [](\A k \in DOMAIN CACHE : CACHE[k].response \in CacheResultPool)
    /\ [][\A p \in DOMAIN cPc :
            CacheInProgress(p) =>
                /\ \A k \in DOMAIN CACHE \ {cCall[p].key} :
                       k \in DOMAIN CACHE' /\ CACHE'[k] = CACHE[k]
                /\ cPc'[p] = "raised" => (CACHE' = CACHE /\ lastStore' = lastStore)]_vars

\* The third request found its entry expired, removed it and failed in
\* run_simulation; the entry of the other key is still there.
C28_Witness ==
    /\ cPc[1] = "raised"
    /\ cCall[1].n = 3
    /\ cCall[1].evicted
    /\ cCall[1].invoked
    /\ cCall[1].key \notin DOMAIN CACHE
    /\ Cardinality(DOMAIN CACHE) = 1

----------------------------------------------------------------------------
(* The worker pool of batch_analyze under a batch larger than the pool *)

\* Identifiers of the batch beyond the size of the pool
MaxExcess == 1

\* How many tasks of a batch may finish ahead of an older running task
MaxOvertake == 1

\* A batch of MaxWorkers + MaxExcess well-formed identifiers.  None of them
\* is in the seed directory or in AWS, so each analysis has one outcome.
PoolBody ==
    [db_identifiers |-> [i \in 1..(MaxWorkers + MaxExcess) |-> GhostDb],
     scenario |-> "primary_db_failure"]

\* The tasks that finished while a task submitted before them was running
Overtakers ==
    {k \in 1..Len(completed) :
        \E j \in 1..(completed[k] - 1) : \A l \in 1..(k - 1) : completed[l] # j}

\* A running analysis finishes; the orders in which the analyses finish
\* are explored up to MaxOvertake finishes ahead of an older running task.
PoolTaskFinish(i) ==
    /\ (\E j \in Running : j < i) => Cardinality(Overtakers) < MaxOvertake
    /\ TaskFinish(i)

InitPool ==
    /\ bReq = PoolBody
    /\ InitBatchVars
    /\ InitCacheIdle
    /\ InitWhatIfIdle
    /\ InitSingleIdle
    /\ InitCallIdle

\* The request is validated, the tasks are submitted by the caller and run
\* by the workers; the collection loop that follows is left out.
NextPool ==
    \/ BatchValidate
    \/ Submit
    \/ \E i \in 1..(MaxWorkers + MaxExcess) : TaskStart(i)
    \/ \E i \in 1..(MaxWorkers + MaxExcess) : PoolTaskFinish(i)

SpecPool == InitPool /\ [][NextPool]_vars

\* The caller keeps running, a free worker takes the head of the queue and
\* every analysis terminates.
FairSpecPool ==
    /\ SpecPool
    /\ WF_vars(BatchValidate)
    /\ WF_vars(Submit)
    /\ WF_vars(\E i \in 1..(MaxWorkers + MaxExcess) : TaskStart(i))
    /\ WF_vars(\E i \in 1..(MaxWorkers + MaxExcess) : PoolTaskFinish(i))

TaskIs(i, st) == IF i \in DOMAIN task THEN task[i] = st ELSE FALSE

\* C24: at most 10 tasks of a batch run at any moment; a task submitted
\* beyond that waits in the queue; the caller can submit its next task
\* whatever the number of running tasks; a task leaves the queue only by
\* being started, and eventually no task is left in the queue.
C24_AtMostTenRunning ==
    /\ [](Cardinality(Running) <= 10)
    /\ [](\A i \in DOMAIN task : i < bNext => task[i] \in {"queued", "running", "done"})
    /\ []((bPc = "submit" /\ bNext <= Len(bReq.db_identifiers)) => ENABLED Submit)
    /\ [][\A i \in DOMAIN task : task[i] = "queued" => task'[i] \in {"queued", "running"}]_vars
    /\ <>[](\A i \in 1..(MaxWorkers + MaxExcess) : ~TaskIs(i, "queued"))

\* Every task has been submitted; ten are running and the last one is
\* waiting in the queue.
C24_Witness ==
    /\ Len(task) > 10
    /\ bNext = Len(task) + 1
    /\ Cardinality(Running) = 10
    /\ task[Len(task)] = "queued"
    /\ Settled = {}

----------------------------------------------------------------------------
(* Telemetry: what the three emitters of cloudwatch_metric.py send *)

NAMESPACE == "DBImpactAgent"

\* One entry of MetricData without dimensions
Metric(name, value, unit) == [MetricName |-> name, Value |-> value, Unit |-> unit]

\* One entry of MetricData with dimensions
DimMetric(name, value, unit, dims) ==
    [MetricName |-> name, Value |-> value, Unit |-> unit, Dimensions |-> dims]

Dimension(name, value) == [Name |-> name, Value |-> value]

\* 1 if x else 0
OneIf(x) == IF x THEN 1 ELSE 0

\* cloudwatch_metric.py 25-85: the MetricData of emit_analysis_metric
AnalysisMetricData(response, duration_ms, scenario) ==
    << DimMetric("AnalysisCount", 1, "Count",
                 <<Dimension("Severity", response.business_severity),
                   Dimension("Scenario", scenario)>>),
       DimMetric("AnalysisCount", 1, "Count",
                 <<Dimension("Severity", response.business_severity)>>),
       DimMetric("AnalysisCount", 1, "Count", <<Dimension("Scenario", scenario)>>),
       Metric("AnalysisCount", 1, "Count"),
       Metric("AnalysisDuration", duration_ms, "Milliseconds"),
       Metric("SLAViolationRate", OneIf(response.sla_violation), "None"),
       Metric("RTOViolationRate", OneIf(response.rto_violation), "None"),
       Metric("RPOViolationRate", OneIf(response.rpo_violation), "None") >>

\* cloudwatch_metric.py 100-112: the success items whose analysis has the flag
ViolationCount(items, flag) ==
    Cardinality({i \in 1..Len(items) :
                    /\ items[i].status = "success"
                    /\ "analysis" \in DOMAIN items[i]
                    /\ items[i].analysis[flag]})

\* cloudwatch_metric.py 117-173: the MetricData of emit_batch_metric
BatchMetricData(batch_response, duration_ms) ==
    << Metric("BatchAnalysisCount", 1, "Count"),
       Metric("BatchSize", batch_response.total_count, "Count"),
       Metric("BatchCriticalCount", batch_response.critical_count, "Count"),
       Metric("BatchHighCount", batch_response.high_count, "Count"),
       Metric("BatchMediumCount", batch_response.medium_count, "Count"),
       Metric("BatchLowCount", batch_response.low_count, "Count"),
       Metric("BatchSLAViolationCount", ViolationCount(batch_response.results, "sla_violation"), "Count"),
       Metric("BatchRTOViolationCount", ViolationCount(batch_response.results, "rto_violation"), "Count"),
       Metric("BatchRPOViolationCount", ViolationCount(batch_response.results, "rpo_violation"), "Count"),
       Metric("BatchDuration", duration_ms, "Milliseconds") >>

\* cloudwatch_metric.py 188-234: the MetricData of emit_what_if_metric
WhatIfMetricData(what_if_response, duration_ms) ==
    LET improvement == what_if_response.improvement_summary IN
    << Metric("WhatIfAnalysisCount", 1, "Count"),
       Metric("WhatIfSeverityImproved", OneIf(improvement.severity_improved), "None"),
       Metric("WhatIfRTOReduction", improvement.rto_reduction_minutes, "None"),
       Metric("WhatIfSLAViolationPrevented", OneIf(improvement.sla_violation_prevented), "None"),
       Metric("WhatIfRTOViolationPrevented", OneIf(improvement.rto_violation_prevented), "None"),
       Metric("WhatIfRPOViolationPrevented", OneIf(improvement.rpo_violation_prevented), "None"),
       Metric("WhatIfDuration", duration_ms, "Milliseconds") >>

\* cloudwatch.put_metric_data(Namespace=..., MetricData=...) as the sink sees it
put_metric_data(namespace, metric_data) == [Namespace |-> namespace, MetricData |-> metric_data]

\* Durations in milliseconds the callers measure
DurationPool == {0, 1234}

\* The BatchResponse batch_analyze builds from the items it collected
BatchResponseOf(items) ==
    BatchResponse([sev \in Severities |->
                      Cardinality({i \in 1..Len(items) :
                                      items[i].status = "success"
                                      /\ items[i].analysis.business_severity = sev})],
                  SortedResults(items))

BatchItemPool ==
    {SuccessItem(ProdUsersDb, r) : r \in BatchResultPool}
    \cup {ErrorItem(GhostDb, Exc("ValueError", "Database ghost not found"))}

\* The calls of the three emitters their callers can make
MetricCalls ==
    {[fn |-> "emit_analysis_metric", response |-> r, duration_ms |-> d, scenario |-> sc] :
        r \in WhatIfResultPool, d \in DurationPool, sc \in SCENARIOS}
    \cup {[fn |-> "emit_batch_metric", batch_response |-> BatchResponseOf(items), duration_ms |-> d] :
        items \in SeqsUpTo(BatchItemPool, MaxIds) \ {<<>>}, d \in DurationPool}
    \cup {[fn |-> "emit_what_if_metric",
           what_if_response |-> WhatIfResponse(b, w, improvement_summary(b, w)),
           duration_ms |-> d, scenario |-> "primary_db_failure"] :
        b \in WhatIfResultPool, w \in WhatIfResultPool, d \in DurationPool}

\* What an emitter call did: the calls the sink received, whether the sink
\* took them, and whether the emitter raised.
Emitted(received, sink, raised) == [received |-> received, sink |-> sink, raised |-> raised]

\* cloudwatch_metric.py 13-90
EmitAnalysisMetric ==
    /\ fPc = "call"
    /\ fCall[1].fn = "emit_analysis_metric"
    /\ \E sink \in SinkOutcomes :
          fOut' = Some(Emitted(
                      <<put_metric_data(NAMESPACE, AnalysisMetricData(fCall[1].response,
                                                       fCall[1].duration_ms, fCall[1].scenario))>>,
                      sink, emit_analysis_metric(sink).raised))
    /\ fPc' = "done"
    /\ UNCHANGED <<fCall, bvars, cvars, wvars, svars>>

\* cloudwatch_metric.py 93-178; the except clause is that of
\* emit_analysis_metric
EmitBatchMetric ==
    /\ fPc = "call"
    /\ fCall[1].fn = "emit_batch_metric"
    /\ \E sink \in SinkOutcomes :
          fOut' = Some(Emitted(
                      <<put_metric_data(NAMESPACE, BatchMetricData(fCall[1].batch_response,
                                                       fCall[1].duration_ms))>>,
                      sink, emit_analysis_metric(sink).raised))
    /\ fPc' = "done"
    /\ UNCHANGED <<fCall, bvars, cvars, wvars, svars>>

\* cloudwatch_metric.py 181-239; the except clause is that of
\* emit_analysis_metric
EmitWhatIfMetric ==
    /\ fPc = "call"
    /\ fCall[1].fn = "emit_what_if_metric"
    /\ \E sink \in SinkOutcomes :
          fOut' = Some(Emitted(
                      <<put_metric_data(NAMESPACE, WhatIfMetricData(fCall[1].what_if_response,
                                                       fCall[1].duration_ms))>>,
                      sink, emit_analysis_metric(sink).raised))
    /\ fPc' = "done"
    /\ UNCHANGED <<fCall, bvars, cvars, wvars, svars>>

InitMetrics ==
    /\ fCall \in {Some(c) : c \in MetricCalls}
    /\ fPc = "call"
    /\ fOut = None
    /\ InitBatchIdle
    /\ InitCacheIdle
    /\ InitWhatIfIdle
    /\ InitSingleIdle

NextMetrics ==
    \/ EmitAnalysisMetric
    \/ EmitBatchMetric
    \/ EmitWhatIfMetric

SpecMetrics == InitMetrics /\ [][NextMetrics]_vars

\* The value of the entry of that name
MetricValue(metric_data, name) ==
    LET i == CHOOSE j \in 1..Len(metric_data) : metric_data[j].MetricName = name
    IN  metric_data[i].Value

EntriesOf(fn) ==
    CASE fn = "emit_analysis_metric" -> 5
      [] fn = "emit_batch_metric" -> 10
      [] fn = "emit_what_if_metric" -> 7

\* C23: an emission is one put_metric_data call in namespace DBImpactAgent
\* with 5 entries for a single analysis, 10 for a batch and 7 for a
\* what-if; the batch entries carry total_count and the four severity
\* counts, the what-if entries severity_improved as 0/1 and
\* rto_reduction_minutes.
C23_OneCallFixedEntries ==
    (fPc = "done" /\ fCall[1].fn \in {"emit_analysis_metric", "emit_batch_metric", "emit_what_if_metric"}) =>
        LET call == fCall[1]
            out == fOut[1]
        IN  /\ Len(out.received) = 1
            /\ out.received[1].Namespace = "DBImpactAgent"
            /\ Len(out.received[1].MetricData) = EntriesOf(call.fn)
            /\ call.fn = "emit_batch_metric" =>
                  LET data == out.received[1].MetricData
                      r == call.batch_response
                  IN  /\ MetricValue(data, "BatchSize") = r.total_count
                      /\ MetricValue(data, "BatchCriticalCount") = r.critical_count
                      /\ MetricValue(data, "BatchHighCount") = r.high_count
                      /\ MetricValue(data, "BatchMediumCount") = r.medium_count
                      /\ MetricValue(data, "BatchLowCount") = r.low_count
            /\ call.fn = "emit_what_if_metric" =>
                  LET data == out.received[1].MetricData
                      summary == call.what_if_response.improvement_summary
                  IN  /\ MetricValue(data, "WhatIfSeverityImproved") = OneIf(summary.severity_improved)
                      /\ MetricValue(data, "WhatIfRTOReduction") = summary.rto_reduction_minutes

----------------------------------------------------------------------------
(* Prompt assembly: build_prompt of prompt_builder.py.  A prompt is the    *)
(* sequence of its parts, in the order of the text.                        *)

\* prompt_builder.py 268-280: the nine lines format_db_config renders;
\* an empty replica list is rendered as the word None.
format_db_config(db_state) ==
    [part |-> "format_db_config",
     Database |-> db_state.identifier, Engine |-> db_state.engine,
     InstanceClass |-> db_state.instance_class, MultiAZ |-> db_state.multi_az,
     PITREnabled |-> db_state.pitr_enabled,
     BackupRetention |-> db_state.backup_retention_days,
     ReadReplicas |-> IF Len(db_state.read_replicas) > 0
                      THEN Some(db_state.read_replicas) ELSE None,
     AllocatedStorage |-> db_state.allocated_storage,
     MaxAllocatedStorage |-> db_state.max_allocated_storage]

\* prompt_builder.py 196-240
what_if_section(db_state, is_what_if, baseline_config) ==
    IF is_what_if /\ baseline_config # None
    THEN << [part |-> "WHAT-IF ANALYSIS MODE"],
            [part |-> "BASELINE CONFIGURATION"],
            format_db_config(baseline_config[1]),
            [part |-> "MODIFIED (WHAT-IF) CONFIGURATION"],
            format_db_config(db_state),
            [part |-> "STEP 1",
             MultiAZ |-> <<baseline_config[1].multi_az, db_state.multi_az>>,
             PITR |-> <<baseline_config[1].pitr_enabled, db_state.pitr_enabled>>,
             BackupRetention |-> <<baseline_config[1].backup_retention_days,
                                   db_state.backup_retention_days>>],
            [part |-> "STEP 2"],
            [part |-> "STEP 3"] >>
    ELSE <<>>

\* prompt_builder.py 242-248
task_section(request, is_what_if) ==
    [part |-> "TASK", db_identifier |-> request.db_identifier, scenario |-> request.scenario,
     with_modified_configuration |-> is_what_if]

\* prompt_builder.py 193-266
build_prompt(request, db_state, business_context, is_what_if, baseline_config) ==
    << [part |-> "BASE_SYSTEM_PROMPT"] >>
    \o what_if_section(db_state, is_what_if, baseline_config)
    \o << task_section(request, is_what_if),
          [part |-> "5 critical questions"],
          [part |-> "RDS_FEATURE_REFERENCE"],
          [part |-> "prompt_section", scenario |-> request.scenario] >>
    \o (IF ~is_what_if THEN <<format_db_config(db_state)>> ELSE <<>>)
    \o << [part |-> "business_context", text |-> business_context],
          [part |-> "OUTPUT_FORMAT_PROMPT"] >>

PromptConfigPool ==
    { InitialFakeDatabases[ProdOrdersDb01], InitialFakeDatabases[ProdPaymentsDb],
      model_copy(InitialFakeDatabases[ProdOrdersDb01],
                 [multi_az |-> TRUE, backup_retention_days |-> 0]).copy }

BusinessContextPool == {"SLA 99.9, RTO 60 min, RPO 15 min", ""}

\* The calls of build_prompt: those run_simulation makes (is_what_if and
\* baseline_config as what_if_analysis or any other caller passes them).
PromptCalls ==
    {[fn |-> "build_prompt", request |-> DbScenarioRequest(ProdOrdersDb01, sc),
      db_state |-> c, business_context |-> t, is_what_if |-> w, baseline_config |-> b] :
        sc \in SCENARIOS, c \in PromptConfigPool, t \in BusinessContextPool,
        w \in BOOLEAN, b \in {None} \cup {Some(x) : x \in PromptConfigPool}}

BuildPrompt ==
    /\ fPc = "call"
    /\ fCall[1].fn = "build_prompt"
    /\ fOut' = Some(build_prompt(fCall[1].request, fCall[1].db_state, fCall[1].business_context,
                                 fCall[1].is_what_if, fCall[1].baseline_config))
    /\ fPc' = "done"
    /\ UNCHANGED <<fCall, bvars, cvars, wvars, svars>>

InitPrompt ==
    /\ fCall \in {Some(c) : c \in PromptCalls}
    /\ fPc = "call"
    /\ fOut = None
    /\ InitBatchIdle
    /\ InitCacheIdle
    /\ InitWhatIfIdle
    /\ InitSingleIdle

NextPrompt == BuildPrompt

SpecPrompt == InitPrompt /\ [][NextPrompt]_vars

\* The positions of a prompt that hold that part
PartsAt(prompt, part) == {i \in 1..Len(prompt) : prompt[i].part = part}

\* C26: every prompt holds the guidance of the request's scenario, the
\* business-context text, the schema instruction and the rendering of
\* db_state; a what-if delta block comes before the task statement and
\* renders the baseline and the modified configuration.
C26_PromptHoldsAllParts ==
    (fPc = "done" /\ fCall[1].fn = "build_prompt") =>
        LET call == fCall[1]
            prompt == fOut[1]
        IN  /\ \E i \in PartsAt(prompt, "prompt_section") : prompt[i].scenario = call.request.scenario
            /\ \E i \in PartsAt(prompt, "business_context") : prompt[i].text = call.business_context
            /\ PartsAt(prompt, "OUTPUT_FORMAT_PROMPT") # {}
            /\ \E i \in 1..Len(prompt) : prompt[i] = format_db_config(call.db_state)
            /\ \A d \in PartsAt(prompt, "STEP 1") :
                  /\ \A t \in PartsAt(prompt, "TASK") : d < t
                  /\ \E i \in 1..Len(prompt) : prompt[i] = format_db_config(call.baseline_config[1])
                  /\ \E i \in 1..Len(prompt) : prompt[i] = format_db_config(call.db_state)

----------------------------------------------------------------------------
(* The request handler: handler(event, context) of lambda_handler.py *)

PathRoot == <<"/">>
PathWhatIf == <<"/","w","h","a","t","-","i","f">>
PathBatch == <<"/","b","a","t","c","h","-","a","n","a","l","y","z","e">>
PathStageWhatIf == <<"/","v","1">> \o PathWhatIf \o <<"/">>
PathOther == <<"/","h","e","a","l","t","h">>

\* path.rstrip("/")
RECURSIVE RStripSlash(_)
RStripSlash(path) ==
    IF Len(path) > 0 /\ path[Len(path)] = "/"
    THEN RStripSlash(SubSeq(path, 1, Len(path) - 1)) ELSE path

\* str.endswith(suffix)
EndsWith(str, suffix) ==
    /\ Len(str) >= Len(suffix)
    /\ SubSeq(str, Len(str) - Len(suffix) + 1, Len(str)) = suffix

\* The text of a request body: what it is the JSON text of
JsonText(kind, value) == [kind |-> kind, value |-> value]

\* json.loads(text): the decoded value with its Python type, or the
\* JSONDecodeError of an empty or malformed text
json_loads(text) ==
    CASE text.kind \in {"empty", "malformed"} ->
             [ok |-> FALSE, error |-> Exc("JSONDecodeError", "Expecting value")]
      [] text.kind = "object" -> [ok |-> TRUE, type |-> "dict", value |-> text.value]
      [] OTHER -> [ok |-> TRUE, type |-> text.kind, value |-> text.value]

\* The exceptions the clause `except ValueError` catches
IsValueError(e) == e.type \in {"ValueError", "ValidationError", "JSONDecodeError"}

\* A body with the default of the scenario field filled in
WithScenario(body) ==
    [k \in DOMAIN body \cup {"scenario"} |->
        IF k \in DOMAIN body THEN body[k] ELSE "primary_db_failure"]

\* Model(**body) of a pydantic model with these required fields
\* (the fields that reach the model's validators, or the error for a
\* missing one)
FromBody(body, required) ==
    IF \E f \in required : f \notin DOMAIN body
    THEN [ok |-> FALSE, error |-> Exc("ValidationError", "Field required")]
    ELSE [ok |-> TRUE, fields |-> WithScenario(body)]

DbScenarioRequestOf(body) == DbScenarioRequest(body.db_identifier, body.scenario)

\* get_cached_or_run_simulation(req) as one call on the cache `cache` at
\* time t (lambda_handler.py 147-172): the outcomes with the cache each
\* leaves behind.
get_cached_or_run_simulation(req, cache, t) ==
    LET cache_key == CacheKey(req) IN
    IF cache_key \in DOMAIN cache /\ IsLive(cache[cache_key], t)
    THEN {[ok |-> TRUE, result |-> cache[cache_key].response, cache |-> cache]}
    ELSE LET evicted == IF cache_key \in DOMAIN cache THEN DictDel(cache, cache_key) ELSE cache
         IN  { IF o.ok
               THEN [ok |-> TRUE, result |-> o.result,
                     cache |-> DictSet(evicted, cache_key, CacheEntry(o.result, t))]
               ELSE [ok |-> FALSE, error |-> o.error, cache |-> evicted] :
               o \in run_simulation(InitialFakeDatabases, req, CacheResultPool) }

\* The items batch_analyze can collect for these identifiers
RECURSIVE ItemSeqs(_, _)
ItemSeqs(ids, scenario) ==
    IF Len(ids) = 0 THEN {<<>>}
    ELSE LET id == ids[Len(ids)]
             last == { IF o.ok THEN SuccessItem(id, o.result) ELSE ErrorItem(id, o.error) :
                       o \in run_simulation(InitialFakeDatabases,
                                            DbScenarioRequest(id, scenario), CacheResultPool) }
         IN  {Append(q, x) : q \in ItemSeqs(SubSeq(ids, 1, Len(ids) - 1), scenario), x \in last}

\* batch_analyze(req) as one call (batch_analyzer.py 11-59): the
\* ValidationError of line 17 for the first malformed identifier, or the
\* response built from the collected items.
batch_analyze(req) ==
    LET bad == {i \in 1..Len(req.db_identifiers) :
                   ~DbScenarioRequest(req.db_identifiers[i], req.scenario).ok}
    IN  IF bad # {}
        THEN {[ok |-> FALSE,
               error |-> DbScenarioRequest(req.db_identifiers[CHOOSE i \in bad : \A j \in bad : i <= j],
                                           req.scenario).error]}
        ELSE {[ok |-> TRUE, result |-> BatchResponseOf(items)] :
                 items \in ItemSeqs(req.db_identifiers, req.scenario)}

\* what_if_analysis(req) as one call (what_if.py 13-56)
what_if_analysis(req) ==
    LET configs == ResolveOutcomes(InitialFakeDatabases, req.db_identifier)
        baseline_request == DbScenarioRequest(req.db_identifier, req.scenario)
        runs == AnalyseOutcomes(CacheResultPool)
        Fail(e) == [ok |-> FALSE, error |-> e]
    IN  {Fail(c.error) : c \in {x \in configs : ~x.ok}}
        \cup (IF \A c \in configs : ~c.ok THEN {}
              ELSE IF ~baseline_request.ok THEN {Fail(baseline_request.error)}
              ELSE {Fail(o.error) : o \in {x \in runs : ~x.ok}}
                   \cup {[ok |-> TRUE,
                          result |-> WhatIfResponse(b.result, w.result,
                                         improvement_summary(b.result, w.result))] :
                            b \in {x \in runs : x.ok}, w \in {x \in runs : x.ok}})

\* What a handler call ends with: the envelope it returns or the exception
\* it raises; `cause` is the exception the envelope reports, if any.
Returned(statusCode, body, cause, cache) ==
    [kind |-> "returned", statusCode |-> statusCode, body |-> body, cause |-> cause, cache |-> cache]

Raised(error, cache) ==
    [kind |-> "raised", statusCode |-> 0, body |-> "", cause |-> Some(error), cache |-> cache]

\* lambda_handler.py 120-145: the two except clauses, for an exception
\* raised in the try block.  Line 130 parses the body a second time when
\* the body is not empty.
HandleException(event, e, cache) ==
    IF IsValueError(e)
    THEN IF event.body.tag = "str" /\ event.body.text.kind # "empty"
            /\ ~json_loads(event.body.text).ok
         THEN Raised(json_loads(event.body.text).error, cache)
         ELSE Returned(400, "error and debug", Some(e), cache)
    ELSE Returned(500, "error", Some(e), cache)

\* lambda_handler.py 69-119: the route taken for a decoded body that is a
\* dict, and what it ends with
Route(event, body, normalized_path, cache, t) ==
    LET is_batch_by_body == "db_identifiers" \in DOMAIN body
        is_single_by_body == "db_identifier" \in DOMAIN body /\ ~is_batch_by_body
        is_whatif_by_body == "config_overrides" \in DOMAIN body
        is_batch_path == normalized_path = PathBatch \/ EndsWith(normalized_path, PathBatch)
        is_whatif_path == normalized_path = PathWhatIf \/ EndsWith(normalized_path, PathWhatIf)
    IN  IF is_whatif_path \/ is_whatif_by_body
        THEN LET given == FromBody(body, {"db_identifier", "config_overrides"})
                 req == IF given.ok THEN WhatIfRequest(given.fields) ELSE given IN
             IF ~req.ok THEN {HandleException(event, req.error, cache)}
             ELSE { IF o.ok THEN Returned(200, "what_if_response", None, cache)
                    ELSE HandleException(event, o.error, cache) : o \in what_if_analysis(req) }
        ELSE IF is_batch_path \/ is_batch_by_body
        THEN LET given == FromBody(body, {"db_identifiers"})
                 req == IF given.ok THEN BatchRequest(given.fields) ELSE given IN
             IF ~req.ok THEN {HandleException(event, req.error, cache)}
             ELSE { IF o.ok THEN Returned(200, "batch_response", None, cache)
                    ELSE HandleException(event, o.error, cache) : o \in batch_analyze(req) }
        ELSE IF normalized_path = PathRoot \/ is_single_by_body
        THEN LET given == FromBody(body, {"db_identifier"})
                 req == IF given.ok THEN DbScenarioRequestOf(given.fields) ELSE given IN
             IF ~req.ok THEN {HandleException(event, req.error, cache)}
             ELSE { IF o.ok THEN Returned(200, "response", None, o.cache)
                    ELSE HandleException(event, o.error, o.cache) :
                    o \in get_cached_or_run_simulation(req, cache, t) }
        ELSE {Returned(404, "Unknown path", None, cache)}

\* handler(event, context) (lambda_handler.py 14-145) with the environment
\* variable API_KEY, the module's cache and the clock: every way the call
\* can end.
handler(API_KEY, event, cache, t) ==
    IF event.headers.tag = "null"
    THEN {Raised(Exc("AttributeError", "'NoneType' object has no attribute 'get'"), cache)}
    ELSE
    LET provided_api_key == IF event.headers.tag = "absent" THEN None ELSE event.headers.key
        path == IF event.rawPath = None THEN PathRoot ELSE event.rawPath[1]
        normalized_path == IF Len(RStripSlash(path)) > 0 THEN RStripSlash(path) ELSE PathRoot
        is_route_path == \/ normalized_path = PathRoot
                         \/ EndsWith(normalized_path, PathBatch)
                         \/ EndsWith(normalized_path, PathWhatIf)
    IN  IF API_KEY = None THEN {Returned(500, "API key not set", None, cache)}
        ELSE IF provided_api_key # API_KEY THEN {Returned(401, "Unauthorized", None, cache)}
        ELSE IF event.body.tag = "null"
        THEN {HandleException(event, Exc("TypeError", "the JSON object must be str, bytes or bytearray, not NoneType"), cache)}
        ELSE
        LET body_str == IF event.body.tag = "absent" THEN JsonText("object", [k \in {} |-> None])
                        ELSE event.body.text
            body == json_loads(body_str)
        IN  IF ~body.ok THEN {HandleException(event, body.error, cache)}
            ELSE IF body.type = "dict" THEN Route(event, body.value, normalized_path, cache, t)
            ELSE IF body.type \in {"int", "NoneType"}
            THEN {HandleException(event, Exc("TypeError", "argument is not iterable"), cache)}
            ELSE IF is_route_path
            THEN {HandleException(event, Exc("TypeError", "argument after ** must be a mapping"), cache)}
            ELSE {Returned(404, "Unknown path", None, cache)}

HandlerHeaders ==
    { [tag |-> "absent"], [tag |-> "null"], [tag |-> "dict", key |-> None],
      [tag |-> "dict", key |-> Some("wrong")], [tag |-> "dict", key |-> Some("secret")] }

HandlerObjects ==
    { [k \in {} |-> None],
      [db_identifier |-> ProdUsersDb, scenario |-> "primary_db_failure"],
      [db_identifier |-> ProdUsersDb],
      [db_identifier |-> GhostDb, scenario |-> "replica_lag"],
      [db_identifier |-> MyRdsDb, scenario |-> "primary_db_failure"],
      [db_identifier |-> OneBad, scenario |-> "primary_db_failure"],
      [db_identifier |-> ProdUsersDb, scenario |-> "az_failure"],
      [db_identifiers |-> <<ProdUsersDb, GhostDb>>, scenario |-> "primary_db_failure"],
      [db_identifiers |-> <<OneBad>>, scenario |-> "primary_db_failure"],
      [db_identifiers |-> <<>>, scenario |-> "primary_db_failure"],
      [db_identifier |-> ProdOrdersDb01, scenario |-> "primary_db_failure",
       config_overrides |-> [multi_az |-> TRUE]],
      [db_identifier |-> GhostDb, scenario |-> "primary_db_failure",
       config_overrides |-> [multi_az |-> TRUE]],
      [db_identifier |-> ProdOrdersDb01, scenario |-> "primary_db_failure",
       config_overrides |-> [k \in {} |-> TRUE]] }

HandlerBodies ==
    { [tag |-> "absent"], [tag |-> "null"] }
    \cup { [tag |-> "str", text |-> JsonText(kind, [k \in {} |-> None])] :
             kind \in {"empty", "malformed", "list", "int", "str", "NoneType"} }
    \cup { [tag |-> "str", text |-> JsonText("object", o)] : o \in HandlerObjects }

HandlerPaths ==
    {None} \cup {Some(path) : path \in {PathRoot, PathWhatIf, PathBatch, PathStageWhatIf, PathOther}}

\* The invocations of the handler: the environment and the event
HandlerCalls ==
    { [fn |-> "handler", API_KEY |-> key,
       event |-> [headers |-> h, body |-> b, rawPath |-> path]] :
        key \in {None, Some("secret")}, h \in HandlerHeaders, b \in HandlerBodies,
        path \in HandlerPaths }

\* What the caller of the handler gets
Outcome(o) == [kind |-> o.kind, statusCode |-> o.statusCode, body |-> o.body, cause |-> o.cause]

HandlerCall ==
    /\ fPc = "call"
    /\ fCall[1].fn = "handler"
    /\ \E o \in handler(fCall[1].API_KEY, fCall[1].event, CACHE, now) :
          /\ fOut' = Some(Outcome(o))
          /\ CACHE' = o.cache
    /\ fPc' = "done"
    /\ UNCHANGED <<fCall, now, ticks, cPc, cCall, lastStore, storedFor, bvars, wvars, svars>>

InitHandler ==
    /\ fCall \in {Some(c) : c \in HandlerCalls}
    /\ fPc = "call"
    /\ fOut = None
    /\ InitBatchIdle
    /\ InitCacheIdle
    /\ InitWhatIfIdle
    /\ InitSingleIdle

NextHandler == HandlerCall

SpecHandler == InitHandler /\ [][NextHandler]_vars

\* C22: for every event the handler returns an envelope with status 200,
\* 400, 401, 404 or 500 and does not raise.
C22_AlwaysAnEnvelope ==
    (fPc = "done" /\ fCall[1].fn = "handler") =>
        /\ fOut[1].kind = "returned"
        /\ fOut[1].statusCode \in {200, 400, 401, 404, 500}

\* The failure kinds of the error taxonomy
ClaimKinds == {"MalformedResponse", "NotFound", "PermissionDenied", "ValidationError"}

\* The failure kind an exception of the engine or of a request model is
KindOfCause(e) ==
    CASE e = Exc("ValidationError", "Invalid JSON") -> "MalformedResponse"
      [] e.type = "ValidationError" -> "ValidationError"
      [] e \in {Exc("ValueError", "Database not found"),
                Exc("ValueError", "Database not found in AWS")} -> "NotFound"
      [] e.type = "PermissionError" -> "PermissionDenied"
      [] OTHER -> "other"

\* How a failure reaches the callers: the exception type the engine raises
\* and the status the handler answers with (0: the handler raises)
Report(o) == [kind |-> KindOfCause(o.cause[1]), type |-> o.cause[1].type, status |-> o.statusCode]

\* Every report of a failure the handler can give
HandlerReports ==
    UNION { {Report(o) : o \in {x \in handler(c.API_KEY, c.event, [k \in {} |-> None], 0) : x.cause # None}} :
            c \in HandlerCalls }

\* C21: a MalformedResponse, a NotFound, a PermissionDenied and a
\* ValidationError reach the callers as different kinds: no failure of one
\* of these kinds has the exception type and the status of a failure of
\* another of them.
C21_KindsDistinguishable ==
    (fPc = "done" /\ fCall[1].fn = "handler" /\ fOut[1].cause # None) =>
        LET mine == Report(fOut[1]) IN
        mine.kind \in ClaimKinds =>
            \A r \in HandlerReports :
                (r.kind \in ClaimKinds /\ r.kind # mine.kind) =>
                    ~(r.type = mine.type /\ r.status = mine.status)

====
